---- MODULE Spec2Model ----
(***************************************************************************)
(* TangoFS: the filesystem handlers of tangofs/tangofs.py (class TangoFS)  *)
(* on top of the lazily loaded, cached tree of tangofs/tangodict.py.       *)
(*                                                                         *)
(* A name is a string whose characters Spell gives, and a file content is   *)
(* a sequence of one-character strings, so that slicing, strip/split/join, *)
(* the "%" <-> "/" coding, lower() and the temporary-name pattern are      *)
(* computed as the code computes them.  A filesystem path is the sequence  *)
(* of its raw segments ("/a/b" is <<a, b>>, "/" is <<>>).                  *)
(***************************************************************************)
EXTENDS Integers, Sequences, FiniteSets, TLC

(***************************************************************************)
(* Characters, names                                                       *)
(***************************************************************************)
NL == "\n"
Whitespace == {" ", NL, "\t"}
WordChars == {"D","a","b","c","d","e","f","g","h","i","j","k","l","m","n","o",
              "p","q","r","s","t","u","v","w","x","y","z","_",
              "0","1","2","3","4","5","6","7","8","9"}

n_servers == "servers"
n_devices == "devices"
n_properties == "properties"
n_attributes == "attributes"
n_commands == "commands"

\* the names of the bounded universe
n_s == "s"             \* a server
n_i == "i"             \* its instance
n_j == "j"             \* an instance name the server does not have
n_c == "c"             \* a device class
n_D == "D/m"           \* a device of that class, as the database spells it
n_d == "d/m"           \* the name the tree knows it by
n_e == "e"             \* a device the class does not have at first
n_state == "state"     \* the attribute of a running device
n_label == "label"     \* a configuration field of an attribute
n_value == "value"     \* the value of an attribute
n_init == "init"       \* the command of a running device
n_r == "r"             \* a server the database does not have at first
n_k == "k"             \* a class the instance does not have at first
n_q == "q"             \* a property the device does not have at first
n_gain == "gain"       \* an attribute of the expert display level
n_hgain == ".gain"     \* the name readdir lists it under
n_dfs == "d%m"         \* the name of its directory
n_p == "p"             \* a property of the device
n_x == "x"             \* a name looked up below a property
n_t == "sedabc123"     \* a temporary name of sed -i
n_dot == "."
n_dotdot == ".."

\* the characters of the names
Spell ==
    [n \in {n_servers, n_devices, n_properties, n_attributes, n_commands,
            n_s, n_i, n_j, n_c, n_D, n_d, n_dfs, n_p, n_x, n_t, n_dot, n_dotdot,
            n_e, n_state, n_label, n_value, n_init, n_r, n_k, n_q,
            n_gain, n_hgain} |->
       CASE n = n_servers -> <<"s","e","r","v","e","r","s">>
         [] n = n_devices -> <<"d","e","v","i","c","e","s">>
         [] n = n_properties -> <<"p","r","o","p","e","r","t","i","e","s">>
         [] n = n_attributes -> <<"a","t","t","r","i","b","u","t","e","s">>
         [] n = n_commands -> <<"c","o","m","m","a","n","d","s">>
         [] n = n_s -> <<"s">>
         [] n = n_i -> <<"i">>
         [] n = n_j -> <<"j">>
         [] n = n_c -> <<"c">>
         [] n = n_D -> <<"D","/","m">>
         [] n = n_d -> <<"d","/","m">>
         [] n = n_dfs -> <<"d","%","m">>
         [] n = n_p -> <<"p">>
         [] n = n_x -> <<"x">>
         [] n = n_t -> <<"s","e","d","a","b","c","1","2","3">>
         [] n = n_dot -> <<".">>
         [] n = n_dotdot -> <<".",".">>
         [] n = n_e -> <<"e">>
         [] n = n_state -> <<"s","t","a","t","e">>
         [] n = n_label -> <<"l","a","b","e","l">>
         [] n = n_value -> <<"v","a","l","u","e">>
         [] n = n_init -> <<"i","n","i","t">>
         [] n = n_r -> <<"r">>
         [] n = n_k -> <<"k">>
         [] n = n_q -> <<"q">>
         [] n = n_gain -> <<"g","a","i","n">>
         [] n = n_hgain -> <<".","g","a","i","n">>]
Names == DOMAIN Spell
\* the name with the given characters
Name(chars) == CHOOSE n \in Names : Spell[n] = chars

RECURSIVE MapSeq(_, _)
MapSeq(s, f) == IF s = <<>> THEN <<>> ELSE <<f[Head(s)]>> \o MapSeq(Tail(s), f)

Chars == WordChars \cup Whitespace \cup {"/", "%", "."}

\* str.replace("%", "/") and str.replace("/", "%") on one name
PercentToSlash == [ch \in Chars |-> IF ch = "%" THEN "/" ELSE ch]
SlashToPercent == [ch \in Chars |-> IF ch = "/" THEN "%" ELSE ch]
DecodeAll == [n \in Names |-> Name(MapSeq(Spell[n], PercentToSlash))]
EncodeAll == [n \in Names |-> Name(MapSeq(Spell[n], SlashToPercent))]
Decode(name) == DecodeAll[name]
Encode(name) == EncodeAll[name]
\* str.lower()
LowerChar == [ch \in Chars |-> IF ch = "D" THEN "d" ELSE ch]
LowerAll == [n \in Names |-> Name(MapSeq(Spell[n], LowerChar))]
Lower(name) == LowerAll[name]

\* SEDTMP = re.compile("sed\w{6}"); SEDTMP.match(name)
SedMatch(c) ==
    /\ Len(c) >= 9
    /\ SubSeq(c, 1, 3) = <<"s","e","d">>
    /\ \A k \in 4..9 : c[k] \in WordChars
SedMatchAll == [n \in Names |-> SedMatch(Spell[n])]
SEDTMP(name) == SedMatchAll[name]

(***************************************************************************)
(* Strings                                                                 *)
(***************************************************************************)
RECURSIVE LStrip(_)
LStrip(s) == IF s # <<>> /\ Head(s) \in Whitespace THEN LStrip(Tail(s)) ELSE s
RECURSIVE RStrip(_)
RStrip(s) == IF s # <<>> /\ s[Len(s)] \in Whitespace
             THEN RStrip(SubSeq(s, 1, Len(s) - 1)) ELSE s
\* str.strip()
Strip(s) == RStrip(LStrip(s))

\* str.split("\n"): the list of the segments between newlines
RECURSIVE SplitAcc(_, _)
SplitAcc(s, cur) ==
    IF s = <<>> THEN <<cur>>
    ELSE IF Head(s) = NL THEN <<cur>> \o SplitAcc(Tail(s), <<>>)
    ELSE SplitAcc(Tail(s), Append(cur, Head(s)))
Split(s) == SplitAcc(s, <<>>)

\* "\n".join(lines)
RECURSIVE Join(_)
Join(lines) ==
    IF lines = <<>> THEN <<>>
    ELSE IF Len(lines) = 1 THEN lines[1]
    ELSE lines[1] \o <<NL>> \o Join(Tail(lines))

\* s[a:b] of Python for 0 <= a, b
Slice(s, a, b) ==
    LET hi == IF b > Len(s) THEN Len(s) ELSE b
    IN IF a >= hi THEN <<>> ELSE SubSeq(s, a + 1, hi)
SliceFrom(s, a) == Slice(s, a, Len(s))

\* data.strip().split("\n")
ToLines(data) == Split(Strip(data))
\* "\n".join(value) + "\n"
ToText(value) == Join(value) \o <<NL>>
\* olddata[:offset] + data + olddata[offset + len(data):]
Splice(olddata, data, offset) ==
    Slice(olddata, 0, offset) \o data \o SliceFrom(olddata, offset + Len(data))

(***************************************************************************)
(* The universe of paths                                                   *)
(***************************************************************************)
P_root == <<>>
P_servers == <<n_servers>>
P_s == <<n_servers, n_s>>
P_i == <<n_servers, n_s, n_i>>
P_j == <<n_servers, n_s, n_j>>
P_ic == <<n_servers, n_s, n_i, n_c>>
P_icd == <<n_servers, n_s, n_i, n_c, n_dfs>>
P_props == <<n_servers, n_s, n_i, n_c, n_dfs, n_properties>>
P_p == <<n_servers, n_s, n_i, n_c, n_dfs, n_properties, n_p>>
P_t == <<n_servers, n_s, n_i, n_c, n_dfs, n_properties, n_t>>
P_px == <<n_servers, n_s, n_i, n_c, n_dfs, n_properties, n_p, n_x>>
P_ice == <<n_servers, n_s, n_i, n_c, n_e>>
P_attrs == <<n_servers, n_s, n_i, n_c, n_dfs, n_attributes>>
P_state == <<n_servers, n_s, n_i, n_c, n_dfs, n_attributes, n_state>>
P_label == <<n_servers, n_s, n_i, n_c, n_dfs, n_attributes, n_state, n_label>>
P_value == <<n_servers, n_s, n_i, n_c, n_dfs, n_attributes, n_state, n_value>>
P_cmds == <<n_servers, n_s, n_i, n_c, n_dfs, n_commands>>
P_cmd == <<n_servers, n_s, n_i, n_c, n_dfs, n_commands, n_init>>
P_r == <<n_servers, n_r>>
P_ri == <<n_servers, n_r, n_i>>
P_q == <<n_servers, n_s, n_i, n_c, n_dfs, n_properties, n_q>>
P_gain == <<n_servers, n_s, n_i, n_c, n_dfs, n_attributes, n_gain>>
P_hgain == <<n_servers, n_s, n_i, n_c, n_dfs, n_attributes, n_hgain>>
P_ik == <<n_servers, n_s, n_i, n_k>>
P_ike == <<n_servers, n_s, n_i, n_k, n_e>>

\* the paths the filesystem calls are issued on
DirPaths == {P_root, P_servers, P_s, P_i, P_j, P_ic, P_icd, P_props}
FilePaths == {P_p, P_t}
FsPaths == DirPaths \cup FilePaths \cup
           {P_px, P_ice, P_attrs, P_state, P_label, P_value, P_cmds, P_cmd,
            P_r, P_ri, P_ik, P_ike, P_q, P_gain, P_hgain}

\* [part.replace("%", "/") for part in path[1:].split("/")]
DecodePath(path) == [k \in 1..Len(path) |-> Decode(path[k])]
\* the positions of the tree the paths can reach
TreePaths == {DecodePath(path) : path \in FsPaths}

\* os.path.split(path) and path.rsplit("/", 1)
Parent(path) == IF path = <<>> THEN <<>> ELSE SubSeq(path, 1, Len(path) - 1)
Child(path) == IF path = <<>> THEN "" ELSE path[Len(path)]

IsPrefix(a, b) == Len(a) <= Len(b) /\ SubSeq(b, 1, Len(a)) = a

ServerNameSet == {n_s, n_r}
InstNameSet == {n_i, n_j}
ClassNameSet == {n_c}
DevNameSet == {n_d}
AttrNameSet == {n_state, n_gain}
\* the attributes whose info.disp_level is PyTango.DispLevel.EXPERT
ExpertAttrs == {n_gain}
CmdNameSet == {n_init}
PropNameSet == {n_p, n_t, n_q}
PropKeys == DevNameSet \X PropNameSet

\* file contents handed to write
Contents == {<<"a", NL>>, <<"b", NL>>}
Offsets == {0}

(***************************************************************************)
(* Values stored in the overlay (TangoFS.tmp) and returned by the handlers *)
(***************************************************************************)
SERVER == 0
CLASS == 1
PROPERTY == 2

Absent == [k |-> "absent", n |-> 0, s |-> <<>>]
IntEntry(n) == [k |-> "int", n |-> n, s |-> <<>>]
StrEntry(s) == [k |-> "str", n |-> 0, s |-> s]

NoRet == [exc |-> "", kind |-> "none", mode |-> "", n |-> 0, s |-> <<>>]
Raise(e) == [exc |-> e, kind |-> "none", mode |-> "", n |-> 0, s |-> <<>>]
RetInt(n) == [exc |-> "", kind |-> "int", mode |-> "", n |-> n, s |-> <<>>]
RetStr(s) == [exc |-> "", kind |-> "str", mode |-> "", n |-> 0, s |-> s]
RetList(s) == [exc |-> "", kind |-> "list", mode |-> "", n |-> 0, s |-> s]
RetEntry(e) == IF e.k = "int" THEN RetInt(e.n) ELSE RetStr(e.s)
\* make_node(mode, size): the fields of the stat result that vary
make_node(mode, size) ==
    [exc |-> "", kind |-> "stat", mode |-> mode, n |-> size, s |-> <<>>]
\* a node: its class and its position in the tree
RetNode(node) ==
    [exc |-> "", kind |-> "node", mode |-> node.k, n |-> 0, s |-> node.p]

(***************************************************************************)
(* State                                                                   *)
(***************************************************************************)
VARIABLES
    dbServers,   \* database: the registered <<server, instance>> pairs
    dbDevices,   \* database: the devices <<server, instance, class, device>>
    dbProps,     \* database: <<device, property>> -> value (<<>>: none)
    cache,       \* AbstractTangoDict._cache of the node at a tree position
    pvalue,      \* DeviceProperty._value at a tree position (<<>>: None)
    dinfo,       \* DeviceDict._info is set at a tree position
    dproxy,      \* DeviceDict._proxy is set at a tree position
    running,     \* the devices whose server process answers
    infos,       \* AttributesDict._infos at a tree position: the label in it
    aconf,       \* the label a device holds for its attribute
    tmp,         \* TangoFS.tmp
    op,          \* the last filesystem call
    ret,         \* what it returned or raised
    calls,       \* the database and device calls it issued, in order
    made,        \* the tree positions for which it constructed a new object
    cleared,     \* the tree positions whose cache it cleared (_cache.clear())
    thread,      \* each worker thread's place in ServersDict.__getitem__
    held,        \* the object a name of ServersDict._cache holds (0: None)
    objs,        \* the objects made for a name since _cache was last replaced
    started,     \* the number of __getitem__ calls the threads began
    worker       \* each worker thread's place in a handler that uses self.tmp

vars == <<dbServers, dbDevices, dbProps, cache, pvalue, dinfo, dproxy,
          running, infos, aconf, tmp, op, ret, calls, made, cleared,
          thread, held, objs, started, worker>>
tvars == <<thread, held, objs, started, worker>>

EmptyCache == [n \in {} |-> 0]
NoValue == <<>>

\* the program state as one value, threaded through the handlers
Cur == [srv |-> dbServers, dev |-> dbDevices, prp |-> dbProps,
        cache |-> cache, pvalue |-> pvalue, dinfo |-> dinfo,
        dproxy |-> dproxy, running |-> running, infos |-> infos,
        aconf |-> aconf, tmp |-> tmp, calls |-> <<>>, made |-> {},
        cleared |-> {},
        fault |-> "", exc |-> ""]

\* the database calls that can be made to fail with PyTango.DevFailed, and
\* the state in which the call named f fails
Faults == {"put_device_property", "delete_device_property"}
Failing(f) == [Cur EXCEPT !.fault = f]

Call(st, name, arg) == [st EXCEPT !.calls = Append(@, <<name, arg>>)]

\* B of the value v: a name for an intermediate result
Bind(v, B(_)) == B(v)

(***************************************************************************)
(* The database client (self._db) as the tree uses it                      *)
(***************************************************************************)
get_server_name_list(st) == {x[1] : x \in st.srv}
get_instance_name_list(st, s) == {x[2] : x \in {y \in st.srv : y[1] = s}}
get_server_class_list(st, s, i) ==
    {x[3] : x \in {y \in st.dev : y[1] = s /\ y[2] = i}}
get_device_name(st, s, i, c) ==
    {x[4] : x \in {y \in st.dev : y[1] = s /\ y[2] = i /\ y[3] = c}}
get_device_property_list(st, d) ==
    {n \in PropNameSet : st.prp[<<d, n>>] # NoValue}
\* proxy.ping() answers
ping(st, d) == d \in st.running

(***************************************************************************)
(* The tree of tangodict.py                                                *)
(***************************************************************************)
Node(k, p) == [k |-> k, p |-> p]
NoneNode == Node("None", <<>>)
Root == Node("TangoDict", <<>>)
Res(st, exc, node) == [st |-> st, exc |-> exc, node |-> node]

IsDict(node) == node.k \in {"ServersDict", "ServerDict", "InstanceDict",
                            "ClassDict", "DeviceDict", "PropertiesDict",
                            "AttributesDict", "CommandsDict"}

\* the attributes a node got from its constructor
servername(node) == node.p[2]
instancename(node) == node.p[3]
classname(node) == node.p[4]
devicename(node) == Lower(node.p[5])
propname(node) == node.p[7]

\* the cache entry for a tree position: 1 if an object is held, else 0
ObjectAt(c, p) ==
    IF p = <<>> \/ Parent(p) \notin DOMAIN c THEN 0
    ELSE IF Child(p) \in DOMAIN c[Parent(p)] THEN c[Parent(p)][Child(p)] ELSE 0

\* the nodes below a position become garbage with the cache that held them
DropBelow(st, p) ==
    [st EXCEPT
       !.cache = [tp \in TreePaths |->
                    IF IsPrefix(p, tp) /\ tp # p THEN EmptyCache ELSE @[tp]],
       !.pvalue = [tp \in TreePaths |->
                    IF IsPrefix(p, tp) /\ tp # p THEN NoValue ELSE @[tp]],
       !.dinfo = [tp \in TreePaths |->
                    IF IsPrefix(p, tp) /\ tp # p THEN FALSE ELSE @[tp]],
       !.dproxy = [tp \in TreePaths |->
                    IF IsPrefix(p, tp) /\ tp # p THEN FALSE ELSE @[tp]],
       !.infos = [tp \in TreePaths |->
                    IF IsPrefix(p, tp) /\ tp # p THEN NoValue ELSE @[tp]]]

\* a clear() that empties the cache of the servers, and the tree with it
ClearCache_Tree(st, p) ==
    DropBelow([st EXCEPT !.cache[<<n_servers>>] = EmptyCache,
                         !.cleared = @ \cup {<<n_servers>>}], <<n_servers>>)

\* self._cache.clear()
ClearCache(st, p) ==
    DropBelow([st EXCEPT !.cache[p] = EmptyCache, !.cleared = @ \cup {p}], p)

\* DeviceDict.proxy: the proxy kept from before, or a new one, which can be
\* created for a device the database knows
Proxy(st, node) ==
    IF st.dproxy[node.p] THEN [st |-> st, ok |-> TRUE]
    ELSE IF \E x \in st.dev : Lower(x[4]) = devicename(node)
    THEN [st |-> [st EXCEPT !.dproxy[node.p] = TRUE], ok |-> TRUE]
    ELSE [st |-> st, ok |-> FALSE]

\* a ping that every device answers
Pinged_AnswersAlways(st, node) ==
    [st |-> Call(st, "ping", <<devicename(node)>>), ok |-> TRUE]

\* self.proxy and self.proxy.ping() of a DeviceDict, DevFailed caught
Pinged(st, node) ==
    Bind(Proxy(st, node), LAMBDA x :
        IF ~x.ok THEN x
        ELSE [st |-> Call(x.st, "ping", <<devicename(node)>>),
              ok |-> ping(x.st, devicename(node))])

\* get_items_from_db of the node classes
get_items_from_db(st, node) ==
    CASE node.k = "ServersDict" ->
           [st |-> Call(st, "get_server_name_list", <<>>),
            items |-> get_server_name_list(st)]
      [] node.k = "ServerDict" ->
           [st |-> Call(st, "get_instance_name_list", <<servername(node)>>),
            items |-> get_instance_name_list(st, servername(node))]
      [] node.k = "InstanceDict" ->
           [st |-> Call(st, "get_server_class_list",
                        <<servername(node), instancename(node)>>),
            items |-> get_server_class_list(st, servername(node),
                                            instancename(node))]
      [] node.k = "ClassDict" ->
           [st |-> Call(st, "get_device_name",
                        <<servername(node), instancename(node), classname(node)>>),
            items |-> {Lower(d) : d \in get_device_name(st, servername(node),
                                       instancename(node), classname(node))}]
      [] node.k = "DeviceDict" ->
           Bind(Pinged(st, node), LAMBDA a :
               [st |-> a.st,
                items |-> IF a.ok THEN {n_properties, n_attributes, n_commands}
                          ELSE {n_properties}])
      [] node.k = "AttributesDict" ->
           IF ping(st, devicename(node))
           THEN [st |-> [Call(Call(st, "get_attribute_list",
                                   <<devicename(node)>>),
                              "get_attribute_config", <<devicename(node)>>)
                           EXCEPT !.infos[node.p] =
                                     <<st.aconf[devicename(node)]>>],
                 items |-> AttrNameSet]
           ELSE [st |-> [Call(st, "get_attribute_list", <<devicename(node)>>)
                           EXCEPT !.exc = "DevFailed"],
                 items |-> {}]
      [] node.k = "CommandsDict" ->
           IF ping(st, devicename(node))
           THEN [st |-> Call(st, "command_list_query", <<devicename(node)>>),
                 items |-> CmdNameSet]
           ELSE [st |-> [Call(st, "command_list_query", <<devicename(node)>>)
                           EXCEPT !.exc = "DevFailed"],
                 items |-> {}]
      [] node.k = "PropertiesDict" ->
           [st |-> Call(st, "get_device_property_list", <<devicename(node)>>),
            items |-> get_device_property_list(st, devicename(node))]

\* AbstractTangoDict.refresh: every name maps to None again
refresh(st, node) ==
    Bind(get_items_from_db(st, node), LAMBDA g :
        IF g.st.exc # "" THEN g.st
        ELSE DropBelow([g.st EXCEPT !.cache[node.p] = [n \in g.items |-> 0]],
                       node.p))

\* the class of the children of a node
ChildKind(node, name) ==
    CASE node.k = "ServersDict" -> "ServerDict"
      [] node.k = "ServerDict" -> "InstanceDict"
      [] node.k = "InstanceDict" -> "ClassDict"
      [] node.k = "ClassDict" -> "DeviceDict"
      [] node.k = "DeviceDict" ->
           IF name = n_properties THEN "PropertiesDict"
           ELSE IF name = n_attributes THEN "AttributesDict" ELSE "CommandsDict"
      [] node.k = "PropertiesDict" -> "DeviceProperty"
      [] node.k = "AttributesDict" -> "DeviceAttribute"
      [] node.k = "CommandsDict" -> "DeviceCommand"

\* make_child of the node classes, with the constructor of the child
make_child(st, node, name) ==
    LET cp == Append(node.p, name)
    IN CASE node.k = "ServersDict" ->
              LET st1 == Call(st, "get_server_name_list", <<>>)
              IN IF name \in get_server_name_list(st)
                 THEN Res(st1, "", Node("ServerDict", cp))
                 ELSE Res(st1, "KeyError", NoneNode)
         [] node.k = "ServerDict" ->
              LET st1 == Call(st, "get_instance_name_list", <<servername(node)>>)
              IN IF name \in get_instance_name_list(st, servername(node))
                 THEN Res(st1, "", Node("InstanceDict", cp))
                 ELSE Res(st1, "KeyError", NoneNode)
         [] node.k = "InstanceDict" -> Res(st, "", Node("ClassDict", cp))
         [] node.k = "ClassDict" -> Res(st, "", Node("DeviceDict", cp))
         [] node.k = "DeviceDict" ->
              IF name = n_properties
              THEN Res(st, "", Node("PropertiesDict", cp))
              ELSE IF name \in {n_attributes, n_commands}
              THEN Bind(Pinged(st, node), LAMBDA a :
                       IF a.ok THEN Res(a.st, "", Node(ChildKind(node, name), cp))
                       ELSE Res(a.st, "", NoneNode))
              ELSE Res(st, "", NoneNode)
         [] node.k = "PropertiesDict" -> Res(st, "", Node("DeviceProperty", cp))
         [] node.k = "AttributesDict" -> Res(st, "", Node("DeviceAttribute", cp))
         [] node.k = "CommandsDict" -> Res(st, "", Node("DeviceCommand", cp))

\* a __getitem__ that hands the new object out without keeping it
StoreChild_Forgets(st, node, name) ==
    [st EXCEPT !.made = @ \cup {Append(node.p, name)}]

\* self._cache[name] = item, for the object make_child constructed
StoreChild(st, node, name) ==
    [st EXCEPT !.cache[node.p] = [n \in DOMAIN @ \cup {name} |->
                                    IF n = name THEN 1 ELSE @[n]],
               !.made = @ \cup {Append(node.p, name)}]

\* AbstractTangoDict.__getitem__
Dict__getitem__(st, node, name) ==
    Bind(IF DOMAIN st.cache[node.p] = {} THEN refresh(st, node) ELSE st,
         LAMBDA st1 :
        IF st1.exc # "" THEN Res(st1, st1.exc, NoneNode)
        ELSE IF name \notin DOMAIN st1.cache[node.p]
        THEN Res(st1, "KeyError", NoneNode)
        ELSE IF st1.cache[node.p][name] # 0
        THEN Res(st1, "", Node(ChildKind(node, name), Append(node.p, name)))
        ELSE Bind(make_child(st1, node, name), LAMBDA m :
                 IF m.exc # "" \/ m.node = NoneNode THEN m
                 ELSE Res(StoreChild(m.st, node, name), "", m.node)))

\* target[str(part)] for every kind of target
GetItem(st, node, name) ==
    IF node.k = "TangoDict"
    THEN IF name = n_servers THEN Res(st, "", Node("ServersDict", <<n_servers>>))
         ELSE Res(st, "KeyError", NoneNode)
    ELSE IF IsDict(node) THEN Dict__getitem__(st, node, name)
    ELSE Res(st, "TypeError", NoneNode)

\* TangoDict.get_path
RECURSIVE Walk(_, _, _)
Walk(st, node, parts) ==
    IF parts = <<>> THEN Res(st, "", node)
    ELSE Bind(GetItem(st, node, Head(parts)), LAMBDA r :
             IF r.exc # "" THEN r ELSE Walk(r.st, r.node, Tail(parts)))
get_path(st, parts) == Walk(st, Root, parts)

\* TangoFS._get_path
_get_path(st, path) == get_path(st, DecodePath(path))

(***************************************************************************)
(* Leaves and mutations of tangodict.py                                    *)
(***************************************************************************)
Out(st, r) == [st |-> st, ret |-> r]
\* the handler ends with r unless an exception of the tree is on its way up
Done(st, r) == Out(st, IF st.exc # "" THEN Raise(st.exc) ELSE r)
ValRes(st, v) == [st |-> st, value |-> v]

\* DeviceProperty.value (getter)
PropertyValue(st, node) ==
    IF st.pvalue[node.p] # NoValue THEN ValRes(st, st.pvalue[node.p][1])
    ELSE LET v == st.prp[<<devicename(node), propname(node)>>]
             st1 == Call(st, "get_device_property",
                         <<devicename(node), propname(node)>>)
         IN ValRes([st1 EXCEPT !.pvalue[node.p] = <<v>>], v)

\* a setter that keeps the value before the database took it
SetPropertyValue_CachesFirst(st, node, value) ==
    IF st.exc # "" THEN st
    ELSE IF st.fault = "put_device_property"
    THEN [Call(st, "put_device_property",
               <<devicename(node), propname(node), value>>)
            EXCEPT !.pvalue[node.p] = <<value>>,
                   !.exc = "DevFailed"]
    ELSE [Call(st, "put_device_property",
               <<devicename(node), propname(node), value>>)
            EXCEPT !.prp[<<devicename(node), propname(node)>>] = value,
                   !.pvalue[node.p] = <<value>>]

\* DeviceProperty.value (setter)
SetPropertyValue(st, node, value) ==
    IF st.exc # "" THEN st
    ELSE IF st.fault = "put_device_property"
    THEN [Call(st, "put_device_property",
               <<devicename(node), propname(node), value>>)
            EXCEPT !.exc = "DevFailed"]
    ELSE [Call(st, "put_device_property",
               <<devicename(node), propname(node), value>>)
            EXCEPT !.prp[<<devicename(node), propname(node)>>] = value,
                   !.pvalue[node.p] = <<value>>]

\* PropertiesDict.add({name: value})
PropertiesAdd(st, node, name, value) ==
    IF st.exc # "" THEN st
    ELSE IF st.fault = "put_device_property"
    THEN [Call(st, "put_device_property", <<devicename(node), name, value>>)
            EXCEPT !.exc = "DevFailed"]
    ELSE ClearCache([Call(st, "put_device_property",
                          <<devicename(node), name, value>>)
                       EXCEPT !.prp[<<devicename(node), name>>] = value],
                    node.p)

\* PropertiesDict.delete(prop)
PropertiesDelete(st, node, name) ==
    IF st.exc # "" THEN st
    ELSE IF st.fault = "delete_device_property"
    THEN [Call(st, "delete_device_property", <<devicename(node), name>>)
            EXCEPT !.exc = "DevFailed"]
    ELSE ClearCache([Call(st, "delete_device_property",
                          <<devicename(node), name>>)
                       EXCEPT !.prp[<<devicename(node), name>>] = NoValue],
                    node.p)

\* DeviceProperty.delete
PropertyDelete(st, node) ==
    PropertiesDelete(st, Node("PropertiesDict", Parent(node.p)), propname(node))

\* a rename that deletes the old name before it puts the new one
PropertyRename_DeleteFirst(st, node, name) ==
    IF name # propname(node)
    THEN Bind(PropertyValue(st, node), LAMBDA g :
             PropertiesAdd(
                 PropertiesDelete(g.st, Node("PropertiesDict", Parent(node.p)),
                                  propname(node)),
                 Node("PropertiesDict", Parent(node.p)), name, g.value))
    ELSE st

\* DeviceProperty.rename
PropertyRename(st, node, name) ==
    IF name # propname(node)
    THEN Bind(PropertyValue(st, node), LAMBDA g :
             PropertiesDelete(
                 PropertiesAdd(g.st, Node("PropertiesDict", Parent(node.p)),
                               name, g.value),
                 Node("PropertiesDict", Parent(node.p)), propname(node)))
    ELSE st

\* AbstractTangoDict.parent: the parent object while it is truthy (its cache
\* has entries), else the unbound make_parent
ParentIsNode(st, node) == DOMAIN st.cache[Parent(node.p)] # {}

\* DeviceDict.info
DeviceInfo(st, node) ==
    IF st.dinfo[node.p] THEN [st |-> st, info |-> TRUE]
    ELSE LET st1 == Call(st, "get_device_info", <<devicename(node)>>)
         IN IF \E x \in st.dev : Lower(x[4]) = devicename(node)
            THEN [st |-> [st1 EXCEPT !.dinfo[node.p] = TRUE], info |-> TRUE]
            ELSE [st |-> st1, info |-> FALSE]

\* ServerDict.delete(instancename), reached from InstanceDict.delete
ServerDelete(st, node, name) ==
    LET s == servername(node)
        st1 == Call(st, "delete_server", <<s, name>>)
    IN ClearCache([st1 EXCEPT
                     !.srv = @ \ {<<s, name>>},
                     !.dev = {x \in @ : ~(x[1] = s /\ x[2] = name)}],
                  node.p)

\* ClassDict.delete(devicename), reached from DeviceDict.delete
ClassDelete(st, node, name) ==
    LET st1 == Call(st, "delete_device", <<name>>)
    IN [st1 EXCEPT !.dev = {x \in @ : Lower(x[4]) # Lower(name)}]

\* InstanceDict.delete and DeviceDict.delete: self.parent.delete(self.name)
NodeDelete(st, node) ==
    IF ~ParentIsNode(st, node) THEN Out(st, Raise("AttributeError"))
    ELSE IF node.k = "InstanceDict"
    THEN Out(ServerDelete(st, Node("ServerDict", Parent(node.p)),
                          instancename(node)), NoRet)
    ELSE Out(ClassDelete(st, Node("ClassDict", Parent(node.p)),
                         devicename(node)), NoRet)

\* InstanceDict.rename -> ServerDict.rename_instance
InstanceRename(st, node, name) ==
    IF ~ParentIsNode(st, node) THEN Out(st, Raise("AttributeError"))
    ELSE LET s == servername(node)
             old == instancename(node)
             st1 == Call(st, "rename_server", <<s, old, name>>)
         IN IF <<s, name>> \in st.srv \/ <<s, old>> \notin st.srv
            THEN Out(st1, Raise("DevFailed"))
            ELSE Out(ClearCache(
                      [st1 EXCEPT
                         !.srv = (@ \ {<<s, old>>}) \cup {<<s, name>>},
                         !.dev = {IF x[1] = s /\ x[2] = old
                                  THEN <<s, name, x[3], x[4]>> ELSE x : x \in @}],
                      Parent(node.p)), NoRet)

\* key in self (AbstractTangoDict.__contains__)
Contains(st, node, name) ==
    Bind(IF DOMAIN st.cache[node.p] = {} THEN refresh(st, node) ELSE st,
         LAMBDA st1 : [st |-> st1, yes |-> name \in DOMAIN st1.cache[node.p]])

NoName == ""

\* self._db.add_server(servername, devinfos)
add_server(st, srvname, instname, cls, devinfos) ==
    [Call(st, "add_server", <<srvname, instname, devinfos>>) EXCEPT
       !.srv = @ \cup {<<srvname, instname>>},
       !.dev = {x \in @ : Lower(x[4]) \notin {Lower(d) : d \in devinfos}} \cup
               {<<srvname, instname, cls, d>> : d \in devinfos}]

\* the devices of a list, which has one device at most where the tree is
\* asked to add devices
ListOf(devinfos) ==
    CHOOSE l \in [1..Cardinality(devinfos) -> devinfos] :
        \A a, b \in 1..Cardinality(devinfos) : a # b => l[a] # l[b]

\* for dev in devinfos: self._db.add_device(dev)
add_devices(st, srvname, instname, cls, devinfos) ==
    [st EXCEPT
       !.calls = @ \o [k \in 1..Cardinality(devinfos) |->
                         <<"add_device",
                           <<srvname, instname, cls, ListOf(devinfos)[k]>>>>],
       !.dev = {x \in @ : Lower(x[4]) \notin {Lower(d) : d \in devinfos}} \cup
               {<<srvname, instname, cls, d>> : d \in devinfos}]

\* srvname not in self or instname not in self.get(srvname, {})
ServersMissing(st, srvname, instname) ==
    Bind(Contains(st, Node("ServersDict", <<n_servers>>), srvname), LAMBDA c1 :
        IF ~c1.yes THEN [st |-> c1.st, yes |-> TRUE]
        ELSE Bind(Dict__getitem__(c1.st, Node("ServersDict", <<n_servers>>),
                                  srvname),
                  LAMBDA g :
                 IF g.exc # "" THEN [st |-> g.st, yes |-> TRUE]
                 ELSE Bind(Contains(g.st, g.node, instname), LAMBDA c2 :
                          [st |-> c2.st, yes |-> ~c2.yes])))

\* ServersDict.add, the part that calls the database
ServersAddToDb(st, srvname, instname, cls, devinfos) ==
    Bind(ServersMissing(st, srvname, instname), LAMBDA mi :
        IF mi.yes THEN add_server(mi.st, srvname, instname, cls, devinfos)
        ELSE add_devices(mi.st, srvname, instname, cls, devinfos))

\* a ServersDict.add that leaves the cache of the class as it is
ServersAdd_KeepsCache(st, srvname, instname, cls, devices) ==
    Bind(Walk(ServersAddToDb(st, srvname, instname, cls,
                             IF cls # NoName THEN devices ELSE {}),
              Node("ServersDict", <<n_servers>>), <<srvname, instname, cls>>),
         LAMBDA w :
        IF w.exc # "" THEN Out(w.st, Raise(w.exc))
        ELSE Out(w.st, NoRet))

\* ServersDict.add(srvname, instname, classname, devices); classname is
\* NoName and devices is {} where the caller leaves them out
ServersAdd(st, srvname, instname, cls, devices) ==
    Bind(Walk(ServersAddToDb(st, srvname, instname, cls,
                             IF cls # NoName THEN devices ELSE {}),
              Node("ServersDict", <<n_servers>>), <<srvname, instname, cls>>),
         LAMBDA w :
        IF w.exc # "" THEN Out(w.st, Raise(w.exc))
        ELSE Out(ClearCache(w.st, w.node.p), NoRet))

\* ClassDict.add(devices): up the parents to ServersDict.add
ClassAdd(st, node, devices) ==
    IF ~ParentIsNode(st, node)
       \/ ~ParentIsNode(st, Node("InstanceDict", Parent(node.p)))
       \/ ~ParentIsNode(st, Node("ServerDict", Parent(Parent(node.p))))
    THEN Out(st, Raise("AttributeError"))
    ELSE ServersAdd(st, servername(node), instancename(node), classname(node),
                    devices)

(***************************************************************************)
(* DeviceAttribute (tangodict.py) and the branches of the handlers for it  *)
(***************************************************************************)
\* the configuration fields write passes on, as far as the paths name them
ConfigFields == {n_label}
\* proxy.read_attribute(name).value of the attribute of the model
AttrValue == <<"o", "n">>

\* DeviceAttribute.info: the object make_child took out of self._infos
AttributeInfo(st, node) == st.infos[Parent(node.p)][1]

\* DeviceAttribute.set_config: setattr(self.info, attr, value), then
\* self.parent.proxy.set_attribute_config(self.info)
set_config(st, node, value) ==
    IF ping(st, devicename(node))
    THEN [Call(st, "set_attribute_config", <<devicename(node), value>>)
            EXCEPT !.infos[Parent(node.p)] = <<value>>,
                   !.aconf[devicename(node)] = value]
    ELSE [Call(st, "set_attribute_config", <<devicename(node), value>>)
            EXCEPT !.infos[Parent(node.p)] = <<value>>,
                   !.exc = "DevFailed"]

\* getattr(target, child) of a DeviceAttribute: the text of str() of it
AttributeField(st, node, child) ==
    IF child = n_value
    THEN IF ping(st, devicename(node))
         THEN [st |-> Call(st, "read_attribute", <<devicename(node)>>),
               exc |-> "", text |-> AttrValue]
         ELSE [st |-> Call(st, "read_attribute", <<devicename(node)>>),
               exc |-> "DevFailed", text |-> <<>>]
    ELSE IF child \in ConfigFields
    THEN [st |-> st, exc |-> "", text |-> AttributeInfo(st, node)]
    ELSE [st |-> st, exc |-> "AttributeError", text |-> <<>>]

\* getattr, the branch for a child of a DeviceAttribute; for the value,
\* get_plugins calls check() of every module of plugins/, which scalar.py
\* and spectrum.py do not define
GetattrAttribute(st, path, target) ==
    Bind(AttributeField(st, target, Child(path)), LAMBDA f :
        IF f.exc # "" THEN Out(f.st, Raise(f.exc))
        ELSE IF Child(path) = n_value THEN Out(f.st, Raise("AttributeError"))
        ELSE Out([f.st EXCEPT !.tmp[path] = StrEntry(f.text \o <<NL>>)],
                 make_node("S_IFREG", Len(f.text) + 1)))

\* read, the branch for a child of a DeviceAttribute
ReadAttribute(st, target, child) ==
    Bind(AttributeField(st, target, child), LAMBDA f :
        IF f.exc # "" THEN Out(f.st, Raise(f.exc))
        ELSE Out(f.st, RetStr(f.text \o <<NL>>)))

\* write, the branch for a child of a DeviceAttribute
WriteAttribute(st, target, attr, data) ==
    IF attr \in ConfigFields
    THEN Done(set_config(st, target, Strip(data)), RetInt(Len(data)))
    ELSE Out(st, RetInt(Len(data)))

(***************************************************************************)
(* The handlers of class TangoFS (tangofs.py)                              *)
(***************************************************************************)
\* EXE.format(device=..., command=...): the template of command.py, cut down
\* to its first line and the two names the second line puts into it
EXE(device, command) ==
    <<"#", "!", NL>> \o Spell[command] \o <<"(", ")", " ">> \o Spell[device]
        \o <<NL>>

InTmp(st, path) == st.tmp[path] # Absent
TmpPop(st, path) == [st EXCEPT !.tmp[path] = Absent]

\* a getattr that leaves the marker of a property in the overlay
GetattrPending_KeepsMarker(st, path) ==
    Bind(_get_path(st, Parent(path)), LAMBDA r2 :
        IF r2.exc = "KeyError" THEN Out(r2.st, Raise("ENOENT"))
        ELSE IF r2.exc # "" THEN Out(r2.st, Raise(r2.exc))
        ELSE IF r2.node.k = "DeviceAttribute"
        THEN GetattrAttribute(r2.st, path, r2.node)
        ELSE IF InTmp(r2.st, path)
        THEN IF r2.st.tmp[path] = IntEntry(SERVER)
             THEN Out(r2.st, make_node("S_IFDIR", 0))
             ELSE Out(r2.st, make_node("S_IFREG", 0))
        ELSE Out(r2.st, Raise("ENOENT")))

\* getattr, the branch taken when the path itself does not resolve
GetattrPending(st, path) ==
    Bind(_get_path(st, Parent(path)), LAMBDA r2 :
        IF r2.exc = "KeyError" THEN Out(r2.st, Raise("ENOENT"))
        ELSE IF r2.exc # "" THEN Out(r2.st, Raise(r2.exc))
        ELSE IF r2.node.k = "DeviceAttribute"
        THEN GetattrAttribute(r2.st, path, r2.node)
        ELSE IF InTmp(r2.st, path)
        THEN IF r2.st.tmp[path] = IntEntry(PROPERTY)
             THEN Out(TmpPop(r2.st, path), make_node("S_IFREG", 0))
             ELSE IF r2.st.tmp[path] = IntEntry(SERVER)
             THEN Out(r2.st, make_node("S_IFDIR", 0))
             ELSE Out(r2.st, make_node("S_IFREG", 0))
        ELSE Out(r2.st, Raise("ENOENT")))

\* getattr, the branches by the class of the target
GetattrTarget(st, path, target) ==
    IF target.k = "DeviceProperty"
    THEN Bind(PropertyValue(st, target), LAMBDA g :
             Out([g.st EXCEPT !.tmp[path] = StrEntry(ToText(g.value))],
                 make_node("S_IFREG", Len(ToText(g.value)))))
    ELSE IF target.k = "DeviceCommand"
    THEN Out([st EXCEPT !.tmp[path] =
                StrEntry(EXE(devicename(target), Child(target.p)))],
             make_node("S_IFREG|755",
                       Len(EXE(devicename(target), Child(target.p)))))
    ELSE IF target.k = "DeviceDict"
    THEN Bind(DeviceInfo(st, target), LAMBDA i :
             IF i.info THEN Out(i.st, make_node("S_IFDIR", 0))
             ELSE Out(i.st, Raise("AttributeError")))
    ELSE Out(st, make_node("S_IFDIR", 0))

getattr(st, path) ==
    Bind(_get_path(st, path), LAMBDA r :
        IF r.exc \in {"KeyError", "TypeError"} THEN GetattrPending(r.st, path)
        ELSE IF r.exc # "" THEN Out(r.st, Raise(r.exc))
        ELSE GetattrTarget(r.st, path, r.node))

\* AbstractTangoDict.keys: the names of the cache, as a set
keys(st, node) ==
    Bind(IF DOMAIN st.cache[node.p] = {} THEN refresh(st, node) ELSE st,
         LAMBDA st1 :
        [st |-> st1, exc |-> st1.exc,
         names |-> IF st1.exc # "" THEN {} ELSE DOMAIN st1.cache[node.p]])

\* the keys of the target of readdir
ReaddirKeys(st, path) ==
    Bind(_get_path(st, path), LAMBDA r :
        IF r.exc = "DevFailed"
        THEN [st |-> r.st, exc |-> "caught", names |-> {}]
        ELSE IF r.exc # "" THEN [st |-> r.st, exc |-> r.exc, names |-> {}]
        ELSE IF r.node.k = "TangoDict"
        THEN [st |-> r.st, exc |-> "", names |-> {n_servers, n_devices}]
        ELSE IF IsDict(r.node) THEN keys(r.st, r.node)
        ELSE [st |-> r.st, exc |-> "AttributeError", names |-> {}])

\* the orders in which a dict may hand out its keys
KeyOrders(names) ==
    {l \in [1..Cardinality(names) -> names] :
        \A a, b \in 1..Cardinality(names) : a # b => l[a] # l[b]}

\* readdir, the loop over the nodes of an AttributesDict: target[node] makes
\* the DeviceAttribute of every name that has none
ReaddirAttributes(st, path) ==
    IF IsPrefix(DecodePath(P_attrs), DecodePath(path))
       /\ Len(path) = Len(P_attrs)
    THEN [st EXCEPT
            !.made = @ \cup {Append(DecodePath(path), n) :
                               n \in {x \in DOMAIN st.cache[DecodePath(path)] :
                                         st.cache[DecodePath(path)][x] = 0}},
            !.cache[DecodePath(path)] = [n \in DOMAIN @ |-> 1]]
    ELSE st

\* readdir, the name a node is listed under: name.replace("/", "%"), and
\* "." + node for the attributes of the expert level
ReaddirNode(path, name) ==
    IF /\ IsPrefix(DecodePath(P_attrs), DecodePath(path))
       /\ Len(path) = Len(P_attrs)
       /\ Encode(name) \in ExpertAttrs
    THEN Name(<<".">> \o Spell[Encode(name)])
    ELSE Encode(name)

\* readdir; order is the order in which the dict of the cache hands out keys
readdir(st, path, order) ==
    IF InTmp(st, path) THEN Out(st, RetList(<<n_dot, n_dot>>))
    ELSE Bind(ReaddirKeys(st, path), LAMBDA k :
             IF k.exc = "caught" THEN Out(k.st, NoRet)
             ELSE IF k.exc # "" THEN Out(k.st, Raise(k.exc))
             ELSE Out(ReaddirAttributes(k.st, path),
                      RetList(<<n_dot, n_dotdot>> \o
                              [x \in 1..Len(order) |->
                                 ReaddirNode(path, order[x])])))

\* mkdir
mkdir(st, path) ==
    IF InTmp(st, Parent(path))
    THEN IF st.tmp[Parent(path)] = IntEntry(SERVER)
         THEN ServersAdd(st, Child(Parent(path)), Child(path), NoName, {})
         ELSE IF st.tmp[Parent(path)] = IntEntry(CLASS)
         THEN IF Len(Parent(path)) + 1 # 4 THEN Out(st, Raise("ValueError"))
              ELSE ServersAdd(st, path[1], path[2], path[3],
                              {Name(<<Spell[Child(path)][k]>>) :
                                  k \in 1..Len(Spell[Child(path)])})
         ELSE Out(st, NoRet)
    ELSE Bind(_get_path(st, Parent(path)), LAMBDA r :
             IF r.exc # "" THEN Out(r.st, Raise(r.exc))
             ELSE IF r.node.k = "ServersDict"
             THEN Out([r.st EXCEPT !.tmp[path] = IntEntry(SERVER)], NoRet)
             ELSE IF r.node.k = "InstanceDict"
             THEN Out([r.st EXCEPT !.tmp[path] = IntEntry(CLASS)], NoRet)
             ELSE IF r.node.k = "ClassDict"
             THEN ClassAdd(r.st, r.node, {Decode(Child(path))})
             ELSE Out(r.st, NoRet))

\* a read that runs the command it is asked to read
ReadTarget_Runs(st, target) ==
    IF target.k = "DeviceCommand"
    THEN Out(Call(st, "command_inout", <<devicename(target), Child(target.p)>>),
             RetStr(EXE(devicename(target), Child(target.p))))
    ELSE IF target.k = "DeviceProperty"
    THEN Bind(PropertyValue(st, target), LAMBDA g :
             Out(g.st, RetStr(ToText(g.value))))
    ELSE Out(st, NoRet)

\* read, the part that returns the content of the target
ReadTarget(st, target) ==
    IF target.k = "DeviceCommand"
    THEN Out(st, RetStr(EXE(devicename(target), Child(target.p))))
    ELSE IF target.k = "DeviceProperty"
    THEN Bind(PropertyValue(st, target), LAMBDA g :
             Out(g.st, RetStr(ToText(g.value))))
    ELSE Out(st, NoRet)

\* read
read(st, path) ==
    IF InTmp(st, path) THEN Out(TmpPop(st, path), RetEntry(st.tmp[path]))
    ELSE Bind(_get_path(st, path), LAMBDA r :
             IF r.exc = "KeyError" THEN Out(r.st, Raise("ENOENT"))
             ELSE IF r.exc = "TypeError"
             THEN Bind(_get_path(r.st, Parent(path)), LAMBDA r2 :
                      IF r2.exc # "" THEN Out(r2.st, Raise(r2.exc))
                      ELSE IF r2.node.k = "DeviceAttribute"
                      THEN ReadAttribute(r2.st, r2.node, Child(path))
                      ELSE ReadTarget(r2.st, r2.node))
             ELSE IF r.exc # "" THEN Out(r.st, Raise(r.exc))
             ELSE ReadTarget(r.st, r.node))

\* a write that stores a new property at once whatever its name
WriteNew_PutsAtOnce(st, path, data, offset) ==
    Bind(_get_path(st, Parent(path)), LAMBDA r2 :
        IF r2.exc # "" THEN Out(r2.st, Raise(r2.exc))
        ELSE IF r2.node.k # "PropertiesDict" THEN Out(r2.st, RetInt(Len(data)))
        ELSE Done(PropertiesAdd(r2.st, r2.node, Child(path), ToLines(data)),
                  RetInt(Len(data))))

\* write, the branch taken when the path names no child of its parent
WriteNew(st, path, data, offset) ==
    Bind(_get_path(st, Parent(path)), LAMBDA r2 :
        IF r2.exc # "" THEN Out(r2.st, Raise(r2.exc))
        ELSE IF r2.node.k # "PropertiesDict" THEN Out(r2.st, RetInt(Len(data)))
        ELSE IF SEDTMP(Child(path))
        THEN IF offset # 0
             THEN IF ~InTmp(r2.st, path) THEN Out(r2.st, Raise("KeyError"))
                  ELSE IF r2.st.tmp[path].k = "int"
                  THEN Out(r2.st, Raise("TypeError"))
                  ELSE Out([r2.st EXCEPT !.tmp[path] =
                              StrEntry(Splice(r2.st.tmp[path].s, data, offset))],
                           RetInt(Len(data)))
             ELSE Out([r2.st EXCEPT !.tmp[path] = StrEntry(data)],
                      RetInt(Len(data)))
        ELSE Done(PropertiesAdd(r2.st, r2.node, Child(path), ToLines(data)),
                  RetInt(Len(data))))

\* write, the part that stores into the target
WriteTarget(st, target, data, offset) ==
    IF target.k = "DeviceProperty"
    THEN IF offset # 0
         THEN Bind(PropertyValue(st, target), LAMBDA g :
                  Done(SetPropertyValue(g.st, target,
                           ToLines(Splice(ToText(g.value), data, offset))),
                       RetInt(Len(data))))
         ELSE Done(SetPropertyValue(st, target, ToLines(data)),
                   RetInt(Len(data)))
    ELSE Out(st, RetInt(Len(data)))

write(st, path, data, offset) ==
    Bind(_get_path(st, path), LAMBDA r :
        IF r.exc = "KeyError" THEN WriteNew(r.st, path, data, offset)
        ELSE IF r.exc = "TypeError"
        THEN Bind(_get_path(r.st, Parent(path)), LAMBDA r2 :
                 IF r2.exc # "" THEN Out(r2.st, Raise(r2.exc))
                 ELSE IF r2.node.k = "DeviceAttribute"
                 THEN WriteAttribute(r2.st, r2.node, Child(path), data)
                 ELSE WriteTarget(r2.st, r2.node, data, offset))
        ELSE IF r.exc # "" THEN Out(r.st, Raise(r.exc))
        ELSE WriteTarget(r.st, r.node, data, offset))

\* create
create(st, path) ==
    IF SEDTMP(Child(path))
    THEN Out([st EXCEPT !.tmp[path] = StrEntry(<<>>)], RetInt(0))
    ELSE Out([st EXCEPT !.tmp[path] = IntEntry(PROPERTY)], RetInt(0))

\* unlink
unlink(st, path) ==
    IF ~InTmp(st, path) THEN Out(st, Raise("KeyError"))
    ELSE Bind(_get_path(TmpPop(st, path), path), LAMBDA r :
             IF r.exc # "" THEN Out(r.st, Raise(r.exc))
             ELSE IF r.node.k = "DeviceProperty"
             THEN Done(PropertyDelete(r.st, r.node), NoRet)
             ELSE Out(r.st, NoRet))

\* rmdir
rmdir(st, path) ==
    Bind(_get_path(st, path), LAMBDA r :
        IF r.exc # "" THEN Out(r.st, Raise(r.exc))
        ELSE IF r.node.k \in {"InstanceDict", "DeviceDict"}
        THEN NodeDelete(r.st, r.node)
        ELSE Out(r.st, NoRet))

\* flush (and truncate, open, sync, release, mknod, chmod, readlink): pass
flush(st, path) == Out(st, NoRet)

\* rename, the branch that replays a temporary file
RenameTmp(st, oldpath, newpath) ==
    IF SEDTMP(Child(newpath))
    THEN Out([TmpPop(st, oldpath) EXCEPT !.tmp[newpath] = st.tmp[oldpath]],
             RetInt(0))
    ELSE IF st.tmp[oldpath].k = "int"
    THEN Out(TmpPop(st, oldpath), Raise("AttributeError"))
    ELSE Bind(_get_path(TmpPop(st, oldpath), newpath), LAMBDA r :
             IF r.exc # "" THEN Out(r.st, Raise(r.exc))
             ELSE IF r.node.k = "DeviceProperty"
             THEN Done(SetPropertyValue(r.st, r.node,
                                        ToLines(st.tmp[oldpath].s)), NoRet)
             ELSE Out(r.st, NoRet))

\* a rename that lets every object pass as movable
RenameNode_NoRefusal(st, oldpath, newpath) ==
    Bind(_get_path(st, oldpath), LAMBDA r :
        IF r.exc # "" THEN Out(r.st, Raise(r.exc))
        ELSE IF r.node.k = "DeviceProperty"
        THEN Done(PropertyRename(r.st, r.node, Child(newpath)), NoRet)
        ELSE IF r.node.k = "InstanceDict"
        THEN InstanceRename(r.st, r.node, Child(newpath))
        ELSE Out(r.st, NoRet))

\* rename, the branch that renames a node of the tree
RenameNode(st, oldpath, newpath) ==
    Bind(_get_path(st, oldpath), LAMBDA r :
        IF r.exc # "" THEN Out(r.st, Raise(r.exc))
        ELSE IF r.node.k = "DeviceProperty"
        THEN Done(PropertyRename(r.st, r.node, Child(newpath)), NoRet)
        ELSE IF r.node.k = "InstanceDict"
        THEN InstanceRename(r.st, r.node, Child(newpath))
        ELSE Out(r.st, Raise("ENOENT")))

rename(st, oldpath, newpath) ==
    IF InTmp(st, oldpath) /\ SEDTMP(Child(oldpath))
    THEN RenameTmp(st, oldpath, newpath)
    ELSE RenameNode(st, oldpath, newpath)

(***************************************************************************)
(* Initial state and the calls of the filesystem                           *)
(***************************************************************************)
\* the worker threads of FUSE(..., nothreads=False) and what they look up
Threads == {1, 2}
MaxCalls == 4
ServersNode == Node("ServersDict", <<n_servers>>)
LookupNames == {n_s, n_x}
Idle == [pc |-> "idle", name |-> "", item |-> 0, call |-> 0, exc |-> ""]
Resting == [pc |-> "idle", path |-> <<>>, seen |-> Absent]

NoOp == [name |-> "init", path |-> <<>>, path2 |-> <<>>, data |-> <<>>,
         offset |-> 0, fault |-> ""]
OpRec(name, path, path2, data, offset) ==
    [name |-> name, path |-> path, path2 |-> path2, data |-> data,
     offset |-> offset, fault |-> ""]

Init ==
    /\ dbServers = {<<n_s, n_i>>}
    /\ dbDevices = {<<n_s, n_i, n_c, n_D>>}
    /\ dbProps = [k \in PropKeys |->
                    IF k = <<n_d, n_p>> THEN <<<<"a">>>> ELSE NoValue]
    /\ cache = [tp \in TreePaths |-> EmptyCache]
    /\ pvalue = [tp \in TreePaths |-> NoValue]
    /\ dinfo = [tp \in TreePaths |-> FALSE]
    /\ dproxy = [tp \in TreePaths |-> FALSE]
    /\ running = {}
    /\ infos = [tp \in TreePaths |-> NoValue]
    /\ aconf = [d \in DevNameSet |-> Spell[n_state]]
    /\ tmp = [path \in FsPaths |-> Absent]
    /\ op = NoOp
    /\ ret = NoRet
    /\ calls = <<>>
    /\ made = {}
    /\ cleared = {}
    /\ thread = [t \in Threads |-> Idle]
    /\ held = [name \in LookupNames |-> 0]
    /\ objs = [name \in LookupNames |-> {}]
    /\ started = 0
    /\ worker = [t \in Threads |-> Resting]

\* what a handler, or a part of one, leaves behind
Effect(o, out) ==
    /\ dbServers' = out.st.srv
    /\ dbDevices' = out.st.dev
    /\ dbProps' = out.st.prp
    /\ cache' = out.st.cache
    /\ pvalue' = out.st.pvalue
    /\ dinfo' = out.st.dinfo
    /\ dproxy' = out.st.dproxy
    /\ running' = running
    /\ infos' = out.st.infos
    /\ aconf' = out.st.aconf
    /\ tmp' = out.st.tmp
    /\ calls' = out.st.calls
    /\ made' = out.st.made
    /\ cleared' = out.st.cleared
    /\ op' = o
    /\ ret' = out.ret

\* one call: the handler ran to its end (or to the exception it raised)
Step(o, out) == Effect(o, out) /\ UNCHANGED tvars

GetPath(paths) ==
    \E path \in paths :
        Step(OpRec("get_path", path, <<>>, <<>>, 0),
             Bind(_get_path(Cur, path), LAMBDA r :
                 Out(r.st, IF r.exc # "" THEN Raise(r.exc) ELSE RetNode(r.node))))

Getattr(paths) ==
    \E path \in paths :
        Step(OpRec("getattr", path, <<>>, <<>>, 0), getattr(Cur, path))

Readdir(paths) ==
    \E path \in paths :
        \E order \in KeyOrders(ReaddirKeys(Cur, path).names) :
            Step(OpRec("readdir", path, <<>>, <<>>, 0),
                 readdir(Cur, path, order))

Mkdir(paths) ==
    \E path \in paths :
        Step(OpRec("mkdir", path, <<>>, <<>>, 0), mkdir(Cur, path))

Read(paths) ==
    \E path \in paths :
        Step(OpRec("read", path, <<>>, <<>>, 0), read(Cur, path))

Write(paths, offsets) ==
    \E path \in paths, data \in Contents, offset \in offsets :
        Step(OpRec("write", path, <<>>, data, offset),
             write(Cur, path, data, offset))

Create(paths) ==
    \E path \in paths :
        Step(OpRec("create", path, <<>>, <<>>, 0), create(Cur, path))

Unlink(paths) ==
    \E path \in paths :
        Step(OpRec("unlink", path, <<>>, <<>>, 0), unlink(Cur, path))

Rmdir(paths) ==
    \E path \in paths :
        Step(OpRec("rmdir", path, <<>>, <<>>, 0), rmdir(Cur, path))

Flush(paths) ==
    \E path \in paths :
        Step(OpRec("flush", path, <<>>, <<>>, 0), flush(Cur, path))

Rename(pairs) ==
    \E pp \in pairs :
        Step(OpRec("rename", pp[1], pp[2], <<>>, 0), rename(Cur, pp[1], pp[2]))

\* the server process of a device of the database starts, or stops
DeviceStarts ==
    \E d \in DevNameSet \ running :
        /\ \E x \in dbDevices : Lower(x[4]) = d
        /\ running' = running \cup {d}
        /\ op' = [NoOp EXCEPT !.name = "starts"]
        /\ ret' = NoRet /\ calls' = <<>> /\ made' = {} /\ cleared' = {}
        /\ UNCHANGED <<dbServers, dbDevices, dbProps, cache, pvalue, dinfo,
                       dproxy, infos, aconf, tmp>>
        /\ UNCHANGED tvars

DeviceStops ==
    \E d \in running :
        /\ running' = running \ {d}
        /\ op' = [NoOp EXCEPT !.name = "stops"]
        /\ ret' = NoRet /\ calls' = <<>> /\ made' = {} /\ cleared' = {}
        /\ UNCHANGED <<dbServers, dbDevices, dbProps, cache, pvalue, dinfo,
                       dproxy, infos, aconf, tmp>>
        /\ UNCHANGED tvars

\* another client of the database adds a device to a class of a server, or
\* deletes one it added: the tree is not told
ExternalDevices == {<<n_s, n_i, n_c, n_e>>}

ExternalAdd ==
    \E x \in ExternalDevices \ dbDevices :
        /\ dbDevices' = dbDevices \cup {x}
        /\ op' = [NoOp EXCEPT !.name = "external_add"]
        /\ ret' = NoRet /\ calls' = <<>> /\ made' = {} /\ cleared' = {}
        /\ UNCHANGED <<dbServers, dbProps, cache, pvalue, dinfo, dproxy,
                       running, infos, aconf, tmp>>
        /\ UNCHANGED tvars

ExternalDelete ==
    \E x \in ExternalDevices \cap dbDevices :
        /\ dbDevices' = dbDevices \ {x}
        /\ op' = [NoOp EXCEPT !.name = "external_delete"]
        /\ ret' = NoRet /\ calls' = <<>> /\ made' = {} /\ cleared' = {}
        /\ UNCHANGED <<dbServers, dbProps, cache, pvalue, dinfo, dproxy,
                       running, infos, aconf, tmp>>
        /\ UNCHANGED tvars

\* TangoDict.refresh: self["servers"].refresh(recurse=True); the loop over
\* the values of the new cache finds None under every name
TreeRefresh ==
    Step([NoOp EXCEPT !.name = "refresh"],
         Out(refresh(Cur, ServersNode), NoRet))

\* a rename during which the database call named f fails
RenameFailing(pairs, faults) ==
    \E pp \in pairs, f \in faults :
        Step([OpRec("rename", pp[1], pp[2], <<>>, 0) EXCEPT !.fault = f],
             rename(Failing(f), pp[1], pp[2]))

\* a write during which the database call named f fails
WriteFailing(paths, offsets, faults) ==
    \E path \in paths, data \in Contents, offset \in offsets, f \in faults :
        Step([OpRec("write", path, <<>>, data, offset) EXCEPT !.fault = f],
             write(Failing(f), path, data, offset))

(***************************************************************************)
(* Spec: the calls on the files of one properties directory                *)
(***************************************************************************)
FileRenames == FilePaths \X FilePaths

Next ==
    \/ Getattr(FilePaths \cup {P_px})
    \/ Readdir({P_props})
    \/ Read(FilePaths \cup {P_px})
    \/ Write(FilePaths, Offsets)
    \/ Create(FilePaths)
    \/ Unlink(FilePaths)
    \/ Flush(FilePaths)
    \/ Rename(FileRenames)

Spec == Init /\ [][Next]_vars

(***************************************************************************)
(* SpecTree: the calls on the directories, down to one property            *)
(***************************************************************************)
TreeDirs == {P_servers, P_s, P_i, P_j, P_ic, P_icd, P_props}
TreeRenames == {<<P_i, P_j>>, <<P_j, P_i>>, <<P_s, P_s>>, <<P_ic, P_ic>>,
                <<P_icd, P_icd>>, <<P_props, P_props>>}

NextTree ==
    \/ GetPath(TreeDirs \cup {P_p})
    \/ Getattr({P_icd})
    \/ Readdir({P_ic})
    \/ Mkdir({P_s, P_i, P_j, P_ic, P_icd})
    \/ Rmdir({P_i, P_icd})
    \/ Rename(TreeRenames)

SpecTree == Init /\ [][NextTree]_vars

(***************************************************************************)
(* SpecFault: renames of properties during which a database call fails     *)
(***************************************************************************)
NextFault ==
    \/ Getattr(FilePaths)
    \/ Readdir({P_props})
    \/ Write(FilePaths, Offsets)
    \/ Rename(FileRenames)
    \/ RenameFailing(FileRenames, Faults)

SpecFault == Init /\ [][NextFault]_vars

(***************************************************************************)
(* SpecDev: the calls on the directories of the devices of one class,      *)
(* while the server process of a device starts and stops                   *)
(***************************************************************************)
NextDev ==
    \/ GetPath({P_icd, P_ice, P_attrs})
    \/ Readdir({P_ic, P_icd, P_attrs})
    \/ Mkdir({P_icd, P_ice})
    \/ Rmdir({P_s, P_ic, P_icd, P_ice, P_props})
    \/ DeviceStarts
    \/ DeviceStops

SpecDev == Init /\ [][NextDev]_vars

(***************************************************************************)
(* SpecAttr: the calls on the fields of an attribute, while the server     *)
(* process of its device starts and stops                                  *)
(***************************************************************************)
NextAttr ==
    \/ Getattr({P_label, P_value})
    \/ Readdir({P_attrs})
    \/ Read({P_label, P_value})
    \/ Write({P_label}, Offsets)
    \/ DeviceStarts
    \/ DeviceStops

SpecAttr == Init /\ [][NextAttr]_vars

(***************************************************************************)
(* SpecRefresh: lookups and listings of the directories, and refreshes of  *)
(* the tree                                                                *)
(***************************************************************************)
NextRefresh ==
    \/ GetPath(TreeDirs \cup {P_p})
    \/ Readdir({P_servers, P_s, P_i, P_ic, P_icd, P_props})
    \/ Getattr({P_icd, P_p})
    \/ TreeRefresh

SpecRefresh == Init /\ [][NextRefresh]_vars

(***************************************************************************)
(* SpecInval: the calls that set, add and delete properties and that       *)
(* delete and rename instances                                             *)
(***************************************************************************)
InstanceRenames == {<<P_i, P_j>>, <<P_j, P_i>>}

NextInval ==
    \/ Getattr(FilePaths)
    \/ Readdir({P_s, P_props})
    \/ Write(FilePaths, Offsets)
    \/ Unlink(FilePaths)
    \/ Rename(FileRenames \cup InstanceRenames)
    \/ Rmdir({P_i, P_j})

SpecInval == Init /\ [][NextInval]_vars

(***************************************************************************)
(* SpecPut: writes to properties during which put_device_property fails    *)
(***************************************************************************)
PutOffsets == {0, 1}

NextPut ==
    \/ Getattr(FilePaths)
    \/ Readdir({P_props})
    \/ Write(FilePaths, PutOffsets)
    \/ Unlink(FilePaths)
    \/ WriteFailing(FilePaths, PutOffsets, {"put_device_property"})

SpecPut == Init /\ [][NextPut]_vars

(***************************************************************************)
(* SpecLeaf: getattr and read of a property, a command and the value of an *)
(* attribute, while the property is written and the device starts and      *)
(* stops                                                                   *)
(***************************************************************************)
LeafPaths == {P_p, P_cmd, P_value}

NextLeaf ==
    \/ Getattr(LeafPaths)
    \/ Readdir({P_icd, P_cmds})
    \/ Read(LeafPaths)
    \/ Write({P_p}, Offsets)
    \/ DeviceStarts
    \/ DeviceStops

SpecLeaf == Init /\ [][NextLeaf]_vars

(***************************************************************************)
(* SpecExt: lookups and listings of the directories while another client   *)
(* of the database adds and deletes a device                               *)
(***************************************************************************)
NextExt ==
    \/ GetPath({P_s, P_i, P_ic, P_icd, P_ice, P_props})
    \/ Readdir({P_ic, P_icd})
    \/ Getattr({P_ice})
    \/ ExternalAdd
    \/ ExternalDelete

SpecExt == Init /\ [][NextExt]_vars

(***************************************************************************)
(* SpecServer: a server with its instance, and a class with its device,    *)
(* are created with mkdir, a property with create, an instance is removed  *)
(* with rmdir, and the directories are looked up and listed                *)
(***************************************************************************)
NextServer ==
    \/ Mkdir({P_r, P_ri, P_ik, P_ike})
    \/ GetPath({P_servers, P_s, P_i, P_ic, P_r, P_ri})
    \/ Getattr({P_r, P_ri, P_ik, P_q})
    \/ Readdir({P_servers, P_s, P_r, P_i})
    \/ Rmdir({P_ri})
    \/ Create({P_q})

SpecServer == Init /\ [][NextServer]_vars

(***************************************************************************)
(* SpecRename: renames between two properties of one device, and the calls *)
(* that look at them                                                       *)
(***************************************************************************)
RenamePaths == {P_p, P_q}

NextRename ==
    \/ Getattr(RenamePaths)
    \/ Readdir({P_props})
    \/ Read(RenamePaths)
    \/ Write(RenamePaths, Offsets)
    \/ Rename(RenamePaths \X RenamePaths)

SpecRename == Init /\ [][NextRename]_vars

(***************************************************************************)
(* SpecList: listings of the directories of a device, and getattr of the   *)
(* names they list, while the server process of the device starts and      *)
(* stops                                                                   *)
(***************************************************************************)
ListDirs == {P_ic, P_icd, P_attrs, P_props}

NextList ==
    \/ Readdir(ListDirs)
    \/ Getattr({P_icd, P_attrs, P_props, P_cmds, P_state, P_gain, P_hgain,
                P_p})
    \/ DeviceStarts
    \/ DeviceStops

SpecList == Init /\ [][NextList]_vars

(***************************************************************************)
(* SpecThreads: two worker threads in ServersDict.__getitem__ at once.     *)
(* A thread can be preempted between any two statements; the steps below   *)
(* are the statements of __getitem__ that read or write self._cache.       *)
(***************************************************************************)
GetItemOp(t) == [OpRec("__getitem__", <<n_servers, thread[t].name>>, <<>>,
                       <<>>, 0) EXCEPT !.offset = t]
At(t, pc) == thread[t].pc = pc
Goto(t, pc) == [thread EXCEPT ![t].pc = pc]

\* a thread calls self.tree["servers"][name]
Enter(t) ==
    /\ At(t, "idle")
    /\ started < MaxCalls
    /\ \E name \in LookupNames :
         /\ thread' = [thread EXCEPT ![t] = [Idle EXCEPT !.pc = "test",
                                                         !.name = name,
                                                         !.call = started + 1]]
         /\ Effect([GetItemOp(t) EXCEPT !.path = <<n_servers, name>>],
                   Out(Cur, NoRet))
    /\ started' = started + 1
    /\ UNCHANGED <<held, objs, worker>>

\* if not self._cache:
Test(t) ==
    /\ At(t, "test")
    /\ thread' = Goto(t, IF DOMAIN cache[ServersNode.p] = {} THEN "refresh"
                         ELSE "lookup")
    /\ Effect(GetItemOp(t), Out(Cur, NoRet))
    /\ UNCHANGED <<held, objs, started, worker>>

\* self.refresh(): self._cache is replaced by a dictionary of None
Refresh(t) ==
    /\ At(t, "refresh")
    /\ thread' = Goto(t, "lookup")
    /\ held' = [name \in LookupNames |-> 0]
    /\ objs' = [name \in LookupNames |-> {}]
    /\ Effect(GetItemOp(t), Out(refresh(Cur, ServersNode), NoRet))
    /\ UNCHANGED <<started, worker>>

\* if name not in self._cache: raise KeyError; item = self._cache.get(name)
Lookup(t) ==
    /\ At(t, "lookup")
    /\ thread' =
         IF thread[t].name \notin DOMAIN cache[ServersNode.p]
         THEN [thread EXCEPT ![t].pc = "done", ![t].exc = "KeyError"]
         ELSE [thread EXCEPT ![t].item = held[thread[t].name],
                             ![t].pc = IF held[thread[t].name] = 0
                                       THEN "make" ELSE "done"]
    /\ Effect(GetItemOp(t), Out(Cur, NoRet))
    /\ UNCHANGED <<held, objs, started, worker>>

\* item = self.make_child(name): a new object, known by the call that made it
Make(t) ==
    /\ At(t, "make")
    /\ Bind(make_child(Cur, ServersNode, thread[t].name), LAMBDA m :
         /\ thread' = IF m.exc # ""
                      THEN [thread EXCEPT ![t].pc = "done", ![t].exc = m.exc]
                      ELSE [thread EXCEPT ![t].pc = "store",
                                          ![t].item = thread[t].call]
         /\ objs' = IF m.exc # "" THEN objs
                    ELSE [objs EXCEPT ![thread[t].name] = @ \cup {thread[t].call}]
         /\ Effect(GetItemOp(t), Out(m.st, NoRet)))
    /\ UNCHANGED <<held, started, worker>>

\* self._cache[name] = item
Store(t) ==
    /\ At(t, "store")
    /\ thread' = Goto(t, "done")
    /\ held' = [held EXCEPT ![thread[t].name] = thread[t].item]
    /\ Effect(GetItemOp(t),
              Out(StoreChild(Cur, ServersNode, thread[t].name), NoRet))
    /\ UNCHANGED <<objs, started, worker>>

\* return item, or the KeyError goes up
Return(t) ==
    /\ At(t, "done")
    /\ thread' = [thread EXCEPT ![t] = Idle]
    /\ Effect([GetItemOp(t) EXCEPT !.name = "return"],
              Out(Cur, IF thread[t].exc # "" THEN Raise(thread[t].exc)
                       ELSE RetInt(thread[t].item)))
    /\ UNCHANGED <<held, objs, started, worker>>

NextThreads ==
    \E t \in Threads :
        \/ Enter(t)
        \/ Test(t)
        \/ Refresh(t)
        \/ Lookup(t)
        \/ Make(t)
        \/ Store(t)
        \/ Return(t)

SpecThreads == Init /\ [][NextThreads]_vars

(***************************************************************************)
(* SpecOverlay: two worker threads in the handlers that test self.tmp for  *)
(* a path and then take the entry out.  create and unlink are run as one   *)
(* step; read and getattr are split where they test and where they remove *)
(***************************************************************************)
Busy(t, pc, path) == [worker EXCEPT ![t] = [pc |-> pc, path |-> path,
                                             seen |-> tmp[path]]]
Rests(t) == [worker EXCEPT ![t] = Resting]
ThreadOp(t, name, path) ==
    [OpRec(name, path, <<>>, <<>>, 0) EXCEPT !.offset = t]

CreateCall(t) ==
    /\ worker[t].pc = "idle"
    /\ \E path \in FilePaths :
         Effect(ThreadOp(t, "create", path), create(Cur, path))
    /\ UNCHANGED <<thread, held, objs, started, worker>>

UnlinkCall(t) ==
    /\ worker[t].pc = "idle"
    /\ \E path \in FilePaths :
         Effect(ThreadOp(t, "unlink", path), unlink(Cur, path))
    /\ UNCHANGED <<thread, held, objs, started, worker>>

\* read: if path in self.tmp; the call goes on to its end when it is not
ReadIn(t) ==
    /\ worker[t].pc = "idle"
    /\ \E path \in FilePaths :
         IF InTmp(Cur, path)
         THEN /\ worker' = Busy(t, "r_pop", path)
              /\ Effect(ThreadOp(t, "read", path), Out(Cur, NoRet))
         ELSE /\ worker' = worker
              /\ Effect(ThreadOp(t, "read", path), read(Cur, path))
    /\ UNCHANGED <<thread, held, objs, started>>

\* read: return self.tmp.pop(path)
ReadPop(t) ==
    /\ worker[t].pc = "r_pop"
    /\ worker' = Rests(t)
    /\ Effect(ThreadOp(t, "read", worker[t].path),
              IF InTmp(Cur, worker[t].path) THEN read(Cur, worker[t].path)
              ELSE Out(Cur, Raise("KeyError")))
    /\ UNCHANGED <<thread, held, objs, started>>

\* getattr, up to "elif path in self.tmp"; the call goes on to its end when
\* the path resolves, when its parent does not, or when the test fails
GetattrIn(t) ==
    /\ worker[t].pc = "idle"
    /\ \E path \in FilePaths :
         IF /\ _get_path(Cur, path).exc \in {"KeyError", "TypeError"}
            /\ _get_path(_get_path(Cur, path).st, Parent(path)).exc = ""
            /\ InTmp(Cur, path)
         THEN /\ worker' = Busy(t, "g_test", path)
              /\ Effect(ThreadOp(t, "getattr", path),
                        Out(_get_path(_get_path(Cur, path).st, Parent(path)).st,
                            NoRet))
         ELSE /\ worker' = worker
              /\ Effect(ThreadOp(t, "getattr", path), getattr(Cur, path))
    /\ UNCHANGED <<thread, held, objs, started>>

\* getattr: if self.tmp[path] == PROPERTY ... elif self.tmp[path] == SERVER;
\* the KeyError of an entry that is gone is caught and becomes ENOENT
GetattrTest(t) ==
    /\ worker[t].pc = "g_test"
    /\ IF tmp[worker[t].path] = IntEntry(PROPERTY)
       THEN /\ worker' = [worker EXCEPT ![t].pc = "g_del"]
            /\ Effect(ThreadOp(t, "getattr", worker[t].path), Out(Cur, NoRet))
       ELSE /\ worker' = Rests(t)
            /\ Effect(ThreadOp(t, "getattr", worker[t].path),
                      IF ~InTmp(Cur, worker[t].path)
                      THEN Out(Cur, Raise("ENOENT"))
                      ELSE IF tmp[worker[t].path] = IntEntry(SERVER)
                      THEN Out(Cur, make_node("S_IFDIR", 0))
                      ELSE Out(Cur, make_node("S_IFREG", 0)))
    /\ UNCHANGED <<thread, held, objs, started>>

\* getattr: del self.tmp[path]; return self.make_node(mode=stat.S_IFREG)
GetattrDel(t) ==
    /\ worker[t].pc = "g_del"
    /\ worker' = Rests(t)
    /\ Effect(ThreadOp(t, "getattr", worker[t].path),
              IF ~InTmp(Cur, worker[t].path) THEN Out(Cur, Raise("ENOENT"))
              ELSE Out(TmpPop(Cur, worker[t].path), make_node("S_IFREG", 0)))
    /\ UNCHANGED <<thread, held, objs, started>>

NextOverlay ==
    \E t \in Threads :
        \/ CreateCall(t)
        \/ UnlinkCall(t)
        \/ ReadIn(t)
        \/ ReadPop(t)
        \/ GetattrIn(t)
        \/ GetattrTest(t)
        \/ GetattrDel(t)

SpecOverlay == Init /\ [][NextOverlay]_vars

(***************************************************************************)
(* SpecParent: two worker threads in rmdir and mkdir.  rmdir is split      *)
(* between the lookup of its target and target.delete(), which evaluates   *)
(* self.parent; mkdir and the lookups are run as one step                  *)
(***************************************************************************)
ParentPaths == {P_i, P_icd}

\* the node a thread holds between the two steps of rmdir
HeldNode(t) ==
    Node(IF Len(worker[t].path) = Len(P_i) THEN "InstanceDict"
         ELSE "DeviceDict",
         DecodePath(worker[t].path))

\* AbstractTangoDict.parent of a node: the parent node, or the bound method
\* make_parent where the parent object is falsy
parent(st, node) ==
    IF ParentIsNode(st, node) THEN Parent(node.p) ELSE <<"make_parent">>

\* rmdir: target = self._get_path(path); the call goes on to its end when
\* the path does not resolve or the target has no delete
RmdirIn(t) ==
    /\ worker[t].pc = "idle"
    /\ \E path \in ParentPaths :
         IF /\ _get_path(Cur, path).exc = ""
            /\ _get_path(Cur, path).node.k \in {"InstanceDict", "DeviceDict"}
         THEN /\ worker' = Busy(t, "rm_delete", path)
              /\ Effect(ThreadOp(t, "rmdir", path),
                        Out(_get_path(Cur, path).st, NoRet))
         ELSE /\ worker' = worker
              /\ Effect(ThreadOp(t, "rmdir", path), rmdir(Cur, path))
    /\ UNCHANGED <<thread, held, objs, started>>

\* rmdir: target.delete(), that is self.parent.delete(self.name)
RmdirDelete(t) ==
    /\ worker[t].pc = "rm_delete"
    /\ worker' = Rests(t)
    /\ Effect(ThreadOp(t, "rmdir", worker[t].path),
              NodeDelete(Cur, HeldNode(t)))
    /\ UNCHANGED <<thread, held, objs, started>>

MkdirCall(t) ==
    /\ worker[t].pc = "idle"
    /\ \E path \in {P_icd, P_ice} :
         Effect(ThreadOp(t, "mkdir", path), mkdir(Cur, path))
    /\ UNCHANGED <<thread, held, objs, started, worker>>

GetPathCall(t) ==
    /\ worker[t].pc = "idle"
    /\ \E path \in {P_i, P_ic, P_icd, P_ice} :
         Effect(ThreadOp(t, "get_path", path),
                Bind(_get_path(Cur, path), LAMBDA r :
                    Out(r.st, IF r.exc # "" THEN Raise(r.exc)
                              ELSE RetNode(r.node))))
    /\ UNCHANGED <<thread, held, objs, started, worker>>

NextParent ==
    \E t \in Threads :
        \/ RmdirIn(t)
        \/ RmdirDelete(t)
        \/ MkdirCall(t)
        \/ GetPathCall(t)

SpecParent == Init /\ [][NextParent]_vars

(***************************************************************************)
(* SpecChunk: writes of pieces of text at offsets to a property and to a   *)
(* temporary name, and the calls that look at them                         *)
(***************************************************************************)
Chunks == {<<"a", " ">>, <<"b", NL>>}
ChunkOffsets == {0, 2}

\* a write of one piece
WriteChunk(paths) ==
    \E path \in paths, data \in Chunks, offset \in ChunkOffsets :
        Step(OpRec("write", path, <<>>, data, offset),
             write(Cur, path, data, offset))

NextChunk ==
    \/ WriteChunk(FilePaths)
    \/ Getattr(FilePaths)
    \/ Read(FilePaths)

SpecChunk == Init /\ [][NextChunk]_vars

(***************************************************************************)
(* SpecDelete: two worker threads on the PropertiesDict of a device, one   *)
(* in __getitem__ and one in delete.  Both are split at the statements     *)
(* that read or write self._cache; add and keys are run as one step, add   *)
(* only while no other call is under way                                   *)
(***************************************************************************)
PropsNode == Node("PropertiesDict", DecodePath(P_props))
DeletePaths == {P_p, P_q}
AllRest == \A t \in Threads : worker[t].pc = "idle"

\* __getitem__: if not self._cache:
LookupTest(t) ==
    /\ worker[t].pc = "idle"
    /\ \E path \in DeletePaths :
         /\ worker' = Busy(t, IF DOMAIN cache[PropsNode.p] = {}
                              THEN "l_refresh" ELSE "l_find", path)
         /\ Effect(ThreadOp(t, "__getitem__", path), Out(Cur, NoRet))
    /\ UNCHANGED <<thread, held, objs, started>>

\* __getitem__: self.refresh()
LookupRefresh(t) ==
    /\ worker[t].pc = "l_refresh"
    /\ worker' = [worker EXCEPT ![t].pc = "l_find"]
    /\ Effect(ThreadOp(t, "__getitem__", worker[t].path),
              Out(refresh(Cur, PropsNode), NoRet))
    /\ UNCHANGED <<thread, held, objs, started>>

\* __getitem__: if name not in self._cache: raise KeyError;
\* item = self._cache.get(name); if item is None: item = self.make_child(name)
LookupFind(t) ==
    /\ worker[t].pc = "l_find"
    /\ Bind(Child(worker[t].path), LAMBDA name :
         IF name \notin DOMAIN cache[PropsNode.p]
         THEN /\ worker' = Rests(t)
              /\ Effect(ThreadOp(t, "__getitem__", worker[t].path),
                        Out(Cur, Raise("KeyError")))
         ELSE IF cache[PropsNode.p][name] # 0
         THEN /\ worker' = Rests(t)
              /\ Effect(ThreadOp(t, "__getitem__", worker[t].path),
                        Out(Cur, RetNode(Node("DeviceProperty",
                                              Append(PropsNode.p, name)))))
         ELSE /\ worker' = [worker EXCEPT ![t].pc = "l_store"]
              /\ Effect(ThreadOp(t, "__getitem__", worker[t].path),
                        Out(make_child(Cur, PropsNode, name).st, NoRet)))
    /\ UNCHANGED <<thread, held, objs, started>>

\* __getitem__: self._cache[name] = item; return item
LookupStore(t) ==
    /\ worker[t].pc = "l_store"
    /\ worker' = Rests(t)
    /\ Effect(ThreadOp(t, "__getitem__", worker[t].path),
              Out(StoreChild(Cur, PropsNode, Child(worker[t].path)),
                  RetNode(Node("DeviceProperty",
                               Append(PropsNode.p, Child(worker[t].path))))))
    /\ UNCHANGED <<thread, held, objs, started>>

\* delete: self._db.delete_device_property(self.devicename, prop)
DeleteDb(t) ==
    /\ worker[t].pc = "idle"
    /\ \E path \in DeletePaths :
         /\ worker' = Busy(t, "d_clear", path)
         /\ Effect(ThreadOp(t, "delete", path),
                   Out([Call(Cur, "delete_device_property",
                             <<devicename(PropsNode), Child(path)>>)
                          EXCEPT !.prp[<<devicename(PropsNode), Child(path)>>]
                                     = NoValue],
                       NoRet))
    /\ UNCHANGED <<thread, held, objs, started>>

\* delete: self._cache.clear()
DeleteClear(t) ==
    /\ worker[t].pc = "d_clear"
    /\ worker' = Rests(t)
    /\ Effect(ThreadOp(t, "delete", worker[t].path),
              Out(ClearCache(Cur, PropsNode.p), NoRet))
    /\ UNCHANGED <<thread, held, objs, started>>

\* add({name: value}), with every other call at rest
AddCall(t) ==
    /\ AllRest
    /\ \E path \in DeletePaths :
         Effect(ThreadOp(t, "add", path),
                Out(PropertiesAdd(Cur, PropsNode, Child(path), <<"a">>),
                    NoRet))
    /\ UNCHANGED <<thread, held, objs, started, worker>>

\* keys(): the names of self._cache, in the order the dictionary has them
KeysCall(t) ==
    /\ worker[t].pc = "idle"
    /\ \E order \in KeyOrders(keys(Cur, PropsNode).names) :
         Effect(ThreadOp(t, "keys", P_props),
                Out(keys(Cur, PropsNode).st, RetList(order)))
    /\ UNCHANGED <<thread, held, objs, started, worker>>

NextDelete ==
    \E t \in Threads :
        \/ LookupTest(t)
        \/ LookupRefresh(t)
        \/ LookupFind(t)
        \/ LookupStore(t)
        \/ DeleteDb(t)
        \/ DeleteClear(t)
        \/ AddCall(t)
        \/ KeysCall(t)

SpecDelete == Init /\ [][NextDelete]_vars

TypeOK ==
    /\ dbServers \subseteq ServerNameSet \X InstNameSet
    /\ DOMAIN tmp = FsPaths
    /\ made \subseteq TreePaths

(***************************************************************************)
(* What the properties below talk about                                    *)
(***************************************************************************)
\* the property a path names is in the database
PropertyInDb(path) ==
    /\ Len(path) = 7
    /\ dbProps[<<Lower(Decode(path[5])), Decode(path[7])>>] # NoValue

\* the database key of the property a path names
PropKey(path) == <<Lower(Decode(path[5])), Decode(path[7])>>

\* the path is pending-create: the overlay holds the marker create left for
\* it (or, for a temporary name, the text buffered so far) and the database
\* has no such property
Pending(path) ==
    /\ path \in FilePaths
    /\ ~PropertyInDb(path)
    /\ \/ tmp[path] = IntEntry(PROPERTY)
       \/ tmp[path].k = "str" /\ SEDTMP(Child(path))

Placeholder == make_node("S_IFREG", 0)

\* the cache c holds an object for the tree position
Held(c, tp) == ObjectAt(c, tp) = 1
\* the directory of the path was resolved before and its object is still held
DirectoryLoaded(path) == Held(cache, DecodePath(Parent(path)))

\* the calls that change the database
MutationCalls == {"put_device_property", "delete_device_property",
                  "add_server", "add_device", "delete_server",
                  "delete_device", "rename_server"}
Mutates(cs) == \E k \in 1..Len(cs) : cs[k][1] \in MutationCalls
Puts(cs) == \E k \in 1..Len(cs) : cs[k][1] = "put_device_property"

\* the order of the characters, and of the names spelled with them
CharOrder == <<"\t", NL, " ", "%", ".", "/", "0", "1", "2", "3", "4", "5",
               "6", "7", "8", "9", "D", "_", "a", "b", "c", "d", "e", "f",
               "g", "h", "i", "j", "k", "l", "m", "n", "o", "p", "q", "r",
               "s", "t", "u", "v", "w", "x", "y", "z">>
Rank(ch) == CHOOSE k \in 1..Len(CharOrder) : CharOrder[k] = ch
RECURSIVE LexLess(_, _)
LexLess(a, b) ==
    IF b = <<>> THEN FALSE
    ELSE IF a = <<>> THEN TRUE
    ELSE IF Head(a) = Head(b) THEN LexLess(Tail(a), Tail(b))
    ELSE Rank(Head(a)) < Rank(Head(b))
\* strictly ascending, case-insensitively: sorted and without duplicates
Ascending(list) ==
    \A k \in 1..(Len(list) - 1) :
        LexLess(Spell[Lower(list[k])], Spell[Lower(list[k + 1])])

(***************************************************************************)
(* C1: after a successful write(P, d) at offset 0 to a property, a read of *)
(* P returns d in its stored form (stripped, split into lines, joined and  *)
(* ended by a newline), never a value cached or precomputed before the     *)
(* write.  Stated for the read that directly follows the write.            *)
(***************************************************************************)
C1_ReadAfterWrite ==
    [][(/\ op.name = "write" /\ op.offset = 0 /\ ret.exc = ""
        /\ PropertyInDb(op.path)
        /\ op'.name = "read" /\ op'.path = op.path)
       => ret' = RetStr(ToText(ToLines(op.data)))]_vars

(***************************************************************************)
(* C3: a directory listing gives every child name once, in ascending       *)
(* case-insensitive order.                                                 *)
(***************************************************************************)
C3_ListingSorted ==
    (op.name = "readdir" /\ ret.kind = "list" /\ SubSeq(ret.s, 1, 2) = <<n_dot, n_dotdot>>)
        => Ascending(SubSeq(ret.s, 3, Len(ret.s)))

(***************************************************************************)
(* C4: create(P) directly followed by unlink(P), P not in the database and *)
(* its directory resolved before, leaves no overlay entry for P and the    *)
(* unlink issues no database call.                                         *)
(***************************************************************************)
C4_AbandonedCreate ==
    [][(/\ op.name = "create" /\ ~PropertyInDb(op.path)
        /\ DirectoryLoaded(op.path)
        /\ op'.name = "unlink" /\ op'.path = op.path)
       => (tmp'[op.path] = Absent /\ calls' = <<>>)]_vars

(***************************************************************************)
(* C7: getattr or read of a path that goes below a property (a leaf) fails *)
(* with a not-a-directory error or an invalid-operation error, not with    *)
(* the error of a path that is not found, and never returns content.       *)
(***************************************************************************)
C7_BelowLeaf ==
    [][(/\ op'.name \in {"getattr", "read"} /\ op'.path = P_px
        /\ PropertyInDb(P_p))
       => ret'.exc \in {"ENOTDIR", "EINVAL", "EPERM", "ENOSYS"}]_vars

(***************************************************************************)
(* C8 as stated: getattr of a pending-create path returns the placeholder  *)
(* (a regular file of size 0) and leaves the path pending-create.  Stated  *)
(* for the getattr that directly follows the create.                       *)
(***************************************************************************)
C8_ProbeKeepsPending ==
    [][(/\ op.name = "create" /\ Pending(op.path)
        /\ op'.name = "getattr" /\ op'.path = op.path)
       => (ret' = Placeholder /\ tmp'[op.path] = tmp[op.path])]_vars

(***************************************************************************)
(* C8 as the code has it: getattr of a pending-create path returns the     *)
(* placeholder; it consumes the marker of a path with an ordinary name, so *)
(* that the path is pending no longer, and keeps the entry of a path with  *)
(* a temporary name; it changes nothing in the database.                   *)
(***************************************************************************)
C8_ProbeConsumesMarker ==
    [][(Pending(op'.path) /\ op'.name = "getattr")
       => /\ ret' = Placeholder
          /\ tmp[op'.path] = IntEntry(PROPERTY) => tmp'[op'.path] = Absent
          /\ tmp[op'.path].k = "str" => tmp'[op'.path] = tmp[op'.path]
          /\ ~Mutates(calls')
          /\ dbProps' = dbProps]_vars

\* a getattr consumed the marker of a pending-create path
C8_Witness ==
    /\ op.name = "getattr" /\ op.path = P_p
    /\ ret = Placeholder
    /\ tmp[P_p] = Absent /\ ~PropertyInDb(P_p)

(***************************************************************************)
(* C9: getattr of a pending-create path, its directory resolved before,    *)
(* issues no database call.  Stated for the getattr that directly follows  *)
(* the create.                                                             *)
(***************************************************************************)
C9_ProbeNoCall ==
    [][(/\ op.name = "create" /\ Pending(op.path) /\ DirectoryLoaded(op.path)
        /\ op'.name = "getattr" /\ op'.path = op.path)
       => calls' = <<>>]_vars

(***************************************************************************)
(* C10 as stated: a write on a pending-create path issues no put and keeps *)
(* the data in the overlay.  Stated for the write that directly follows    *)
(* the create.                                                             *)
(***************************************************************************)
C10_WriteDeferred ==
    [][(/\ op.name = "create" /\ Pending(op.path)
        /\ op'.name = "write" /\ op'.path = op.path /\ ret'.exc = "")
       => /\ ~Puts(calls')
          /\ dbProps' = dbProps
          /\ tmp'[op'.path] = StrEntry(op'.data)]_vars

(***************************************************************************)
(* C10 as the code has it: a write at offset 0 on a pending-create path    *)
(* with a temporary name only stores the data in the overlay; the put is   *)
(* issued when that path is renamed to the name of a property the database *)
(* has; flush issues no call; a write on a pending-create path with an     *)
(* ordinary name issues the put itself.                                    *)
(***************************************************************************)
C10_OnlyTempWriteBuffered ==
    [][/\ (Pending(op'.path) /\ op'.name = "write" /\ SEDTMP(Child(op'.path)))
          => /\ ret' = RetInt(Len(op'.data))
             /\ ~Mutates(calls')
             /\ dbProps' = dbProps
             /\ tmp'[op'.path] = StrEntry(op'.data)
       /\ (Pending(op'.path) /\ op'.name = "write" /\ ~SEDTMP(Child(op'.path)))
          => /\ ret' = RetInt(Len(op'.data))
             /\ Puts(calls')
             /\ dbProps'[<<n_d, Child(op'.path)>>] = ToLines(op'.data)
       /\ op'.name = "flush"
          => (calls' = <<>> /\ dbProps' = dbProps /\ tmp' = tmp)
       /\ (/\ Pending(op'.path) /\ op'.name = "rename"
           /\ SEDTMP(Child(op'.path)) /\ ~SEDTMP(Child(op'.path2))
           /\ PropertyInDb(op'.path2))
          => /\ Puts(calls')
             /\ dbProps'[<<n_d, Child(op'.path2)>>] = ToLines(tmp[op'.path].s)
             /\ tmp'[op'.path] = Absent]_vars

\* the data a write left in the overlay under a temporary name was put
\* by the rename to the name of a property
C10_Witness ==
    /\ op.name = "rename" /\ op.path = P_t /\ op.path2 = P_p
    /\ calls = <<<<"put_device_property", <<n_d, n_p, <<<<"b">>>>>>>>>>
    /\ tmp[P_t] = Absent

(***************************************************************************)
(* C11: a write to a temporary name T followed by the rename of T to the   *)
(* property F leaves the database as a direct write of the same data to F  *)
(* would, whether or not F existed; no property named after T appears, and *)
(* the overlay holds no entry for T after the rename.                      *)
(***************************************************************************)
C11_TempReplay ==
    [][(/\ op.name = "write" /\ op.offset = 0 /\ ret.exc = ""
        /\ SEDTMP(Child(op.path)) /\ tmp[op.path] = StrEntry(op.data)
        /\ op'.name = "rename" /\ op'.path = op.path
        /\ ~SEDTMP(Child(op'.path2)))
       => /\ dbProps' = write(Cur, op'.path2, op.data, 0).st.prp
          /\ dbProps'[<<n_d, Child(op.path)>>] = dbProps[<<n_d, Child(op.path)>>]
          /\ tmp'[op.path] = Absent]_vars


(***************************************************************************)
(* C19: read never returns an overlay entry that is not a read payload: a  *)
(* read that finds the marker of a pending create, or the text buffered    *)
(* for a temporary file, fails with ENOENT and returns no content.         *)
(***************************************************************************)
C19_ReadWrongKind ==
    [][(/\ op'.name = "read"
        /\ \/ tmp[op'.path].k = "int"
           \/ /\ op.name \in {"create", "write"} /\ op.path = op'.path
              /\ Pending(op'.path))
       => /\ ret'.exc = "ENOENT"
          /\ ret'.kind = "none"]_vars

(***************************************************************************)
(* Under SpecFault                                                         *)
(***************************************************************************)
\* the step is a rename of the property a to another name b
RenamesProperty ==
    /\ op'.name = "rename"
    /\ ~(tmp[op'.path] # Absent /\ SEDTMP(Child(op'.path)))
    /\ _get_path(Cur, op'.path).exc = ""
    /\ _get_path(Cur, op'.path).node.k = "DeviceProperty"
    /\ Child(op'.path) # Child(op'.path2)

\* the names of a listing
Listed(r) == {r.s[k] : k \in 1..Len(r.s)}

(***************************************************************************)
(* C12: the rename of a property a to b puts b before it deletes a; when   *)
(* the put succeeds and the delete fails, the rename fails, the database   *)
(* holds both names, and the next listing of the properties directory      *)
(* shows both a and b.                                                     *)
(***************************************************************************)
C12_PutBeforeDelete ==
    [][/\ (RenamesProperty /\ op'.fault # "put_device_property")
          => \E k, l \in 1..Len(calls') :
                /\ k < l
                /\ calls'[k][1] = "put_device_property"
                /\ calls'[k][2][2] = Child(op'.path2)
                /\ calls'[l] = <<"delete_device_property",
                                 <<n_d, Child(op'.path)>>>>
                /\ \A m \in 1..k : calls'[m][1] # "delete_device_property"
       /\ (RenamesProperty /\ op'.fault = "delete_device_property")
          => /\ ret'.exc = "DevFailed"
             /\ dbProps'[<<n_d, Child(op'.path)>>] # NoValue
             /\ dbProps'[<<n_d, Child(op'.path2)>>] # NoValue
       /\ (/\ op.name = "rename" /\ op.fault = "delete_device_property"
           /\ ret.exc = "DevFailed" /\ Puts(calls)
           /\ op'.name = "readdir" /\ op'.path = Parent(op.path))
          => /\ ret'.exc = ""
             /\ {Child(op.path), Child(op.path2)} \subseteq Listed(ret')]_vars

\* a rename put the new name and failed in the delete of the old one
C12_Witness ==
    /\ op.name = "rename" /\ op.path = P_p /\ op.path2 = P_t
    /\ op.fault = "delete_device_property" /\ ret.exc = "DevFailed"
    /\ Len(calls) >= 2
    /\ calls[Len(calls) - 1][1] = "put_device_property"
    /\ calls[Len(calls)][1] = "delete_device_property"
    /\ dbProps[<<n_d, n_p>>] # NoValue /\ dbProps[<<n_d, n_t>>] # NoValue

(***************************************************************************)
(* Under SpecDev                                                           *)
(***************************************************************************)
\* the step is a mkdir below a path that resolves to a class
MkdirInClass ==
    /\ op'.name = "mkdir"
    /\ tmp[Parent(op'.path)] = Absent
    /\ _get_path(Cur, Parent(op'.path)).exc = ""
    /\ _get_path(Cur, Parent(op'.path)).node.k = "ClassDict"

(***************************************************************************)
(* C14: mkdir of a device name below a class issues add_device for that    *)
(* device with the class and the server and instance of the class node,    *)
(* and clears the cache of the class node: the next listing of the class   *)
(* shows the new device.                                                   *)
(***************************************************************************)
C14_MkdirDevice ==
    [][/\ MkdirInClass
          => /\ ret'.exc = ""
             /\ \E k \in 1..Len(calls') :
                   calls'[k] = <<"add_device",
                                 <<op'.path[2], op'.path[3], op'.path[4],
                                   Decode(Child(op'.path))>>>>
             /\ <<op'.path[2], op'.path[3], op'.path[4],
                  Decode(Child(op'.path))>> \in dbDevices'
             /\ DecodePath(Parent(op'.path)) \in cleared'
       /\ (/\ op.name = "mkdir" /\ ret.exc = "" /\ Len(op.path) = Len(P_icd)
           /\ \E k \in 1..Len(calls) : calls[k][1] = "add_device"
           /\ op'.name = "readdir" /\ op'.path = Parent(op.path)
           /\ ret'.exc = "")
          => Child(op.path) \in Listed(ret')]_vars

\* a device the class did not have was added by a mkdir
C14_Witness ==
    /\ op.name = "mkdir" /\ op.path = P_ice /\ ret.exc = ""
    /\ calls[Len(calls)] = <<"add_device", <<n_s, n_i, n_c, n_e>>>>
    /\ dbDevices = {<<n_s, n_i, n_c, n_D>>, <<n_s, n_i, n_c, n_e>>}
    /\ DecodePath(P_ic) \in cleared

(***************************************************************************)
(* C15: listing the attributes of a device that does not answer the ping   *)
(* returns no names and raises nothing, also when the device answered      *)
(* while the children of the device node were enumerated and stopped       *)
(* before the attributes child was made.                                   *)
(***************************************************************************)
C15_AttributesOfDeadDevice ==
    [][(/\ op'.name = "readdir" /\ op'.path = P_attrs
        /\ n_d \notin running)
       => /\ ret'.exc = ""
          /\ Listed(ret') \subseteq {n_dot, n_dotdot}]_vars

\* the step enumerated the children of the device node at the position
Enumerated(tp) == cache[tp] = EmptyCache /\ cache'[tp] # EmptyCache
\* a proxy of the device is there or can be created, and the device answers
Answers(tp) ==
    /\ Lower(tp[5]) \in running
    /\ dproxy[tp] \/ \E x \in dbDevices : Lower(x[4]) = Lower(tp[5])

(***************************************************************************)
(* C16: the children of a device node are enumerated as properties alone   *)
(* when the device cannot be pinged or no proxy can be created, and as     *)
(* properties, attributes and commands when the ping succeeds.             *)
(***************************************************************************)
C16_Degradation ==
    [][\A path \in {P_icd, P_ice} :
          Enumerated(DecodePath(path))
          => /\ DOMAIN cache'[DecodePath(path)] =
                   IF Answers(DecodePath(path))
                   THEN {n_properties, n_attributes, n_commands}
                   ELSE {n_properties}
             /\ (op'.name = "readdir" /\ op'.path = path)
                => /\ ret'.exc = ""
                   /\ Listed(ret') = {n_dot, n_dotdot} \cup
                                      DOMAIN cache'[DecodePath(path)]]_vars

\* the children of a running device were enumerated by a listing
C16_Witness ==
    /\ op.name = "readdir" /\ op.path = P_icd /\ ret.exc = ""
    /\ n_d \in running
    /\ \E k \in 1..Len(calls) : calls[k] = <<"ping", <<n_d>>>>
    /\ Listed(ret) = {n_dot, n_dotdot, n_properties, n_attributes, n_commands}

(***************************************************************************)
(* C17: rmdir of a path that resolves to a node that is neither an         *)
(* instance nor a device fails with EPERM and changes nothing in the       *)
(* database.                                                               *)
(***************************************************************************)
C17_RmdirRefused ==
    [][(/\ op'.name = "rmdir"
        /\ _get_path(Cur, op'.path).exc = ""
        /\ _get_path(Cur, op'.path).node.k \notin {"InstanceDict", "DeviceDict"})
       => /\ ret'.exc = "EPERM"
          /\ ~Mutates(calls')
          /\ dbServers' = dbServers /\ dbDevices' = dbDevices]_vars

(***************************************************************************)
(* Under SpecAttr                                                          *)
(***************************************************************************)
\* the calls of the last handler that set an attribute configuration
ConfigCalls(cs) ==
    {k \in 1..Len(cs) : cs[k][1] = "set_attribute_config"}

(***************************************************************************)
(* C22: a write to a configuration field of an attribute issues one        *)
(* set_attribute_config and keeps no copy of the value: when the call      *)
(* fails, the configuration cached for the attribute is the one cached     *)
(* before, or the one the device holds.                                    *)
(***************************************************************************)
C22_ConfigNotKept ==
    [][(/\ op'.name = "write"
        /\ Child(op'.path) \in ConfigFields
        /\ ConfigCalls(calls') # {})
       => /\ Cardinality(ConfigCalls(calls')) = 1
          /\ ret'.exc # ""
             => \A tp \in TreePaths :
                  infos'[tp] \notin {NoValue, infos[tp]}
                  => infos'[tp] = <<aconf'[devicename(Node("", tp))]>>]_vars

(***************************************************************************)
(* Under SpecRefresh                                                       *)
(***************************************************************************)
(***************************************************************************)
(* C23: when the names of a node are fetched again, the object the node    *)
(* holds for a name that is still in the database is kept.                 *)
(***************************************************************************)
C23_RefreshRetains ==
    [][op'.name = "refresh"
       => \A name \in ServerNameSet :
            (/\ Held(cache, <<n_servers, name>>)
             /\ name \in get_server_name_list(Cur))
            => Held(cache', <<n_servers, name>>)]_vars

(***************************************************************************)
(* Under SpecInval                                                         *)
(***************************************************************************)
\* the call that was just made issued the database call named c
Issued(c) == \E k \in 1..Len(calls') : calls'[k][1] = c

\* the caches the call that was just made is to clear: none where it set the
\* value of a property, that of the server where it deleted or renamed an
\* instance, else that of the properties it added to or deleted from
ToInvalidate ==
    IF Issued("delete_server") \/ Issued("rename_server")
    THEN {<<n_servers, op'.path[2]>>}
    ELSE IF op'.name = "write" /\ PropertyInDb(op'.path) THEN {}
    ELSE IF op'.name = "rename" /\ InTmp(Cur, op'.path)
            /\ SEDTMP(Child(op'.path)) THEN {}
    ELSE {DecodePath(Parent(op'.path))}

\* the cache at the position lost nothing in the step
KeepsCache(tp) ==
    \A n \in DOMAIN cache[tp] :
        n \in DOMAIN cache'[tp] /\ cache'[tp][n] >= cache[tp][n]

(***************************************************************************)
(* C24: a mutation clears the cache of the node whose contents changed and *)
(* of no other: none for a property value, the properties of the device    *)
(* for an added or deleted property, the server for a deleted or renamed   *)
(* instance.  Every cache that is not the cleared one, nor below it, keeps *)
(* what it held.                                                           *)
(***************************************************************************)
C24_TargetedInvalidation ==
    [][Mutates(calls')
       => /\ cleared' \subseteq ToInvalidate
          /\ ret'.exc = "" => cleared' = ToInvalidate
          /\ \A tp \in TreePaths :
               (\A q \in ToInvalidate : ~IsPrefix(q, tp)) => KeepsCache(tp)]_vars

\* a property was added while the caches above its directory were loaded
C24_Witness ==
    /\ op.name = "write"
    /\ ret.exc = ""
    /\ cleared = {DecodePath(P_props)}
    /\ Held(cache, DecodePath(P_props))
    /\ Held(cache, DecodePath(P_s))

(***************************************************************************)
(* Under SpecPut                                                           *)
(***************************************************************************)
\* the write that was just made issued a put that the database refused
PutRefused ==
    /\ op'.name = "write"
    /\ op'.fault = "put_device_property"
    /\ Puts(calls')

\* the value held for the property of the path is the one held before, or
\* the value of the database where none was held
SameValue(path) ==
    \/ pvalue'[DecodePath(path)] = pvalue[DecodePath(path)]
    \/ /\ pvalue[DecodePath(path)] = NoValue
       /\ pvalue'[DecodePath(path)] =
            <<dbProps[<<Lower(Decode(path[5])), Decode(path[7])>>]>>

(***************************************************************************)
(* C25: no retry: when the put of a property write or of a property add    *)
(* fails, the write ends with the failure, one put was issued, the         *)
(* database is as before, the value held for the property is not the       *)
(* written one and no cache was cleared or lost an entry.                  *)
(***************************************************************************)
C25_NoRetry ==
    [][PutRefused
       => /\ ret'.exc = "DevFailed"
          /\ Cardinality({k \in 1..Len(calls') :
                            calls'[k][1] = "put_device_property"}) = 1
          /\ dbProps' = dbProps
          /\ SameValue(op'.path)
          /\ cleared' = {}
          /\ \A tp \in TreePaths : KeepsCache(tp)]_vars

\* the put of a write to a property whose value was held was refused
C25_Witness ==
    /\ op.name = "write"
    /\ op.fault = "put_device_property"
    /\ ret.exc = "DevFailed"
    /\ Puts(calls)
    /\ pvalue[DecodePath(P_p)] # NoValue
    /\ Held(cache, DecodePath(P_p))

(***************************************************************************)
(* Under SpecLeaf                                                          *)
(***************************************************************************)
\* the last call was a getattr of a property, a command or the value of an
\* attribute that reported a file, or that read the attribute from the device
LookedUpLeaf ==
    /\ op.name = "getattr"
    /\ op.path \in LeafPaths
    /\ \/ ret.kind = "stat" /\ ret.mode \in {"S_IFREG", "S_IFREG|755"}
       \/ \E k \in 1..Len(calls) : calls[k][1] = "read_attribute"

(***************************************************************************)
(* C26: the read that directly follows a getattr of a property, a command  *)
(* or an attribute value returns content as long as the st_size the        *)
(* getattr reported, and takes it from the overlay with no call to the     *)
(* database or the device.                                                 *)
(***************************************************************************)
C26_SizeMatchesRead ==
    [][(LookedUpLeaf /\ op'.name = "read" /\ op'.path = op.path)
       => /\ ret.kind = "stat"
          /\ ret'.kind = "str"
          /\ Len(ret'.s) = ret.n
          /\ calls' = <<>>]_vars

(***************************************************************************)
(* C27: getattr, readdir and read of a command never run the command: no   *)
(* command_inout is issued, and what read returns is the script text for   *)
(* the device and the command.                                             *)
(***************************************************************************)
C27_ReadNeverRuns ==
    /\ \A k \in 1..Len(calls) : calls[k][1] # "command_inout"
    /\ (op.name = "read" /\ op.path = P_cmd /\ ret.kind = "str")
       => ret.s = EXE(n_d, n_init)

\* a command was read, once from the overlay that getattr filled and once
\* through the tree
C27_Witness ==
    /\ op.name = "read"
    /\ op.path = P_cmd
    /\ ret = RetStr(EXE(n_d, n_init))
    /\ \E k \in 1..Len(calls) : calls[k][1] = "command_list_query"

(***************************************************************************)
(* C29: with no ttl, once the properties of a device have been enumerated  *)
(* from the database, no lookup or listing enumerates them again until the *)
(* node is invalidated, whatever the enumeration returned, an empty result *)
(* included.                                                               *)
(***************************************************************************)
Enumerations(cs) ==
    {k \in 1..Len(cs) : cs[k][1] = "get_device_property_list"}

C29_EnumeratedOnce ==
    [][(/\ op.name = "readdir"
        /\ op.path = P_props
        /\ ret.exc = ""
        /\ op'.name \in {"readdir", "getattr", "read"}
        /\ op'.path \in {P_props} \cup FilePaths)
       => Enumerations(calls') = {}]_vars

(***************************************************************************)
(* C36: unlink of a property that is in the database deletes it there and  *)
(* clears the cache of its properties directory, with or without an entry  *)
(* for the path in the overlay.                                            *)
(***************************************************************************)
C36_UnlinkDeletes ==
    [][(op'.name = "unlink" /\ PropertyInDb(op'.path))
       => /\ ret'.exc = ""
          /\ dbProps'[PropKey(op'.path)] = NoValue
          /\ DecodePath(Parent(op'.path)) \in cleared']_vars

(***************************************************************************)
(* Under SpecExt                                                           *)
(***************************************************************************)
(***************************************************************************)
(* C28: a lookup of a name that the cache of a node lacks enumerates the   *)
(* node from the database again before it gives up, also when the cache    *)
(* holds other names: a device that another client added to the class      *)
(* after the class was listed is found by the next lookup of its path.     *)
(***************************************************************************)
C28_MissReenumerates ==
    [][(/\ op'.name = "get_path"
        /\ op'.path = P_ice
        /\ <<n_s, n_i, n_c, n_e>> \in dbDevices)
       => /\ ret'.exc = ""
          /\ (n_e \notin DOMAIN cache[P_ic]
              => \E k \in 1..Len(calls') : calls'[k][1] = "get_device_name")
      ]_vars

(***************************************************************************)
(* Under SpecServer                                                        *)
(***************************************************************************)
\* the calls of cs that add the server r with the instance i
AddsServer(cs) ==
    {k \in 1..Len(cs) : cs[k] = <<"add_server", <<n_r, n_i, {}>>>>}

(***************************************************************************)
(* C30: for a server r that the database does not have, mkdir of           *)
(* /servers/r followed by mkdir of /servers/r/i ends without an error and  *)
(* issues exactly one add_server for r/i, and the listing of /servers that *)
(* comes next contains r.                                                  *)
(***************************************************************************)
C30_NewServer ==
    [][/\ (/\ op.name = "mkdir" /\ op.path = P_r /\ ret.exc = ""
           /\ n_r \notin get_server_name_list(Cur)
           /\ op'.name = "mkdir" /\ op'.path = P_ri)
          => /\ ret'.exc = ""
             /\ Cardinality(AddsServer(calls')) = 1
       /\ (/\ op.name = "mkdir" /\ op.path = P_ri
           /\ AddsServer(calls) # {}
           /\ op'.name = "readdir" /\ op'.path = P_servers)
          => n_r \in Listed(ret')]_vars

(***************************************************************************)
(* C31: for the instance s/i and a class k it does not have, mkdir of      *)
(* /servers/s/i/k leaves the marker CLASS in the overlay and issues no     *)
(* mutating call, and the mkdir of /servers/s/i/k/e that follows adds the  *)
(* device e of class k in server s/i, with one call, and ends without an   *)
(* error.                                                                  *)
(***************************************************************************)
C31_DeviceInPendingClass ==
    [][/\ (/\ op'.name = "mkdir" /\ op'.path = P_ik
           /\ tmp[P_i] = Absent
           /\ <<n_s, n_i>> \in dbServers
           /\ n_k \notin get_server_class_list(Cur, n_s, n_i))
          => /\ ret'.exc = ""
             /\ tmp'[P_ik] = IntEntry(CLASS)
             /\ ~Mutates(calls')
       /\ (/\ op.name = "mkdir" /\ op.path = P_ik /\ ret.exc = ""
           /\ tmp[P_ik] = IntEntry(CLASS)
           /\ op'.name = "mkdir" /\ op'.path = P_ike)
          => /\ ret'.exc = ""
             /\ Cardinality({k \in 1..Len(calls') :
                               calls'[k][1] \in MutationCalls}) = 1
             /\ <<n_s, n_i, n_k, n_e>> \in dbDevices']_vars

(***************************************************************************)
(* C37: a path that mkdir made pending below the servers (SERVER) or below *)
(* an instance (CLASS) is a directory for getattr, and a path that create  *)
(* made pending below the properties (PROPERTY) is a regular file.         *)
(***************************************************************************)
C37_PendingKind ==
    [][(op'.name = "getattr" /\ _get_path(Cur, op'.path).exc = "KeyError")
       => /\ tmp[op'.path] \in {IntEntry(SERVER), IntEntry(CLASS)}
             => ret'.kind = "stat" /\ ret'.mode = "S_IFDIR"
          /\ tmp[op'.path] = IntEntry(PROPERTY)
             => ret'.kind = "stat" /\ ret'.mode = "S_IFREG"]_vars

(***************************************************************************)
(* Under SpecRename                                                        *)
(***************************************************************************)
\* the calls of cs to the database call named c
CallsOf(cs, c) == {k \in 1..Len(cs) : cs[k][1] = c}

\* the last call was a rename of one property to another name that ended
\* without an error
RenamedProperty ==
    /\ op.name = "rename"
    /\ op.path \in RenamePaths /\ op.path2 \in RenamePaths
    /\ op.path # op.path2
    /\ ret.exc = ""

(***************************************************************************)
(* C32: a rename of property a to b, a # b, that ends without an error     *)
(* issues one put and one delete and leaves b with the value a had and a   *)
(* gone; the listing of the properties that follows contains b and not a,  *)
(* and the read of b that follows returns the content a had. A rename of a *)
(* to a issues no put and no delete.                                       *)
(***************************************************************************)
C32_RenameMoves ==
    [][/\ (RenamedProperty' /\ PropertyInDb(op'.path))
          => /\ dbProps'[PropKey(op'.path2)] = dbProps[PropKey(op'.path)]
             /\ dbProps'[PropKey(op'.path)] = NoValue
             /\ Cardinality(CallsOf(calls', "put_device_property")) = 1
             /\ Cardinality(CallsOf(calls', "delete_device_property")) = 1
       /\ (RenamedProperty /\ op'.name = "readdir" /\ op'.path = P_props)
          => /\ Child(op.path2) \in Listed(ret')
             /\ Child(op.path) \notin Listed(ret')
       /\ (RenamedProperty /\ op'.name = "read" /\ op'.path = op.path2)
          => /\ ret'.kind = "str"
             /\ ret'.s = ToText(dbProps[PropKey(op.path2)])
       /\ (op'.name = "rename" /\ op'.path \in RenamePaths
           /\ op'.path2 = op'.path)
          => ~Mutates(calls')]_vars

(***************************************************************************)
(* Under SpecParent                                                        *)
(***************************************************************************)
(***************************************************************************)
(* C33: the parent of a collection node that was made as the child of a    *)
(* node N is N, in every state, also while the cache of N is empty; it is  *)
(* never a value that is not a node.                                       *)
(***************************************************************************)
C33_ParentIsTheNode ==
    \A t \in Threads :
        worker[t].pc = "rm_delete"
        => parent(Cur, HeldNode(t)) = Parent(HeldNode(t).p)

(***************************************************************************)
(* Under SpecList                                                          *)
(***************************************************************************)
(***************************************************************************)
(* C34: every entry other than "." and ".." that readdir of a directory    *)
(* returns names a child: the getattr of the directory's path with the     *)
(* entry appended, made next, succeeds; also for a name with a slash,      *)
(* listed with "%", and for an attribute of any display level.             *)
(***************************************************************************)
C34_ListedResolves ==
    [][(/\ op.name = "readdir" /\ ret.kind = "list"
        /\ op'.name = "getattr"
        /\ Parent(op'.path) = op.path
        /\ Child(op'.path) \in Listed(ret) \ {n_dot, n_dotdot})
       => ret'.kind = "stat"]_vars

(***************************************************************************)
(* Under SpecChunk                                                         *)
(***************************************************************************)
\* the last two calls wrote two pieces to one path, the second where the
\* first ended
TwoChunks ==
    /\ op.name = "write" /\ op.offset = 0 /\ ret.exc = ""
    /\ op'.name = "write" /\ op'.path = op.path
    /\ op'.offset = Len(op.data)

(***************************************************************************)
(* C35: a write of d1 at offset 0 followed by a write of d2 at offset      *)
(* len(d1) leaves the property, or the buffer of a temporary name, as the  *)
(* one write of d1 + d2 at offset 0 leaves it; and a write at an offset to *)
(* a property replaces len(data) characters of the old text from that      *)
(* offset on and keeps the rest.                                           *)
(***************************************************************************)
C35_ChunksCompose ==
    [][/\ TwoChunks
          => /\ ret'.exc = ""
             /\ dbProps' = write(Cur, op.path, op.data \o op'.data, 0).st.prp
             /\ tmp' = write(Cur, op.path, op.data \o op'.data, 0).st.tmp
       /\ (op'.name = "write" /\ PropertyInDb(op'.path) /\ ret'.exc = "")
          => dbProps'[PropKey(op'.path)] =
                ToLines(Splice(ToText(dbProps[PropKey(op'.path)]),
                               op'.data, op'.offset))]_vars

(***************************************************************************)
(* Under SpecDelete                                                        *)
(***************************************************************************)
\* the names the database enumerates for the device of the properties node
PropsInDb == get_device_property_list(Cur, devicename(PropsNode))

(***************************************************************************)
(* C38: after a delete of a child X of a node N and a lookup of X on N     *)
(* that ran at the same time have both finished, every listing of N equals *)
(* the database's enumeration of the children of N: X is not listed and no *)
(* other child is missing.                                                 *)
(***************************************************************************)
C38_ListingAfterDelete ==
    [][(AllRest /\ op'.name = "keys") => Listed(ret') = PropsInDb]_vars

(***************************************************************************)
(* Under SpecOverlay                                                       *)
(***************************************************************************)
\* thread t ends, in this step, the call that found its path in the overlay
EndsFound(t) == worker[t].pc # "idle" /\ worker'[t].pc = "idle"

(***************************************************************************)
(* C21: the test for an entry of the overlay and its removal are one       *)
(* atomic step: a read or a getattr that found the entry of its path does  *)
(* not fail for having lost it, and a read that found a payload does not   *)
(* return the marker a create stored after the test.                       *)
(***************************************************************************)
C21_OverlaySerialized ==
    [][\A t \in Threads :
         EndsFound(t) =>
           /\ ret'.exc = ""
           /\ (worker[t].pc = "r_pop" /\ worker[t].seen.k = "str")
              => ret'.kind = "str"]_vars

(***************************************************************************)
(* Under SpecThreads                                                       *)
(***************************************************************************)
\* the call of thread t ended with an object for its name
Obtained(t) ==
    /\ thread[t].pc = "done"
    /\ thread[t].exc = ""
    /\ thread[t].item \in objs[thread[t].name]

(***************************************************************************)
(* C20: the cache mutations of a node are serialized: of two threads that  *)
(* look up the same child of ServersDict at once, one constructs it, and   *)
(* both calls end with the same object, the one the cache holds.           *)
(***************************************************************************)
C20_Serialized ==
    /\ \A name \in LookupNames : Cardinality(objs[name]) <= 1
    /\ \A t, u \in Threads :
         (Obtained(t) /\ Obtained(u) /\ thread[t].name = thread[u].name)
         => /\ thread[t].item = thread[u].item
            /\ thread[t].item = held[thread[t].name]

(***************************************************************************)
(* Under SpecTree                                                          *)
(***************************************************************************)
\* the step cleared the cache of a node above the position
Invalidated(tp) == \E q \in cleared' : IsPrefix(q, tp) /\ q # tp

\* every segment of the path names a child the database has
InStore(path) ==
    LET tp == DecodePath(path)
        n == Len(tp)
    IN /\ n <= 7
       /\ n >= 1 => tp[1] = n_servers
       /\ n >= 2 => tp[2] \in get_server_name_list(Cur)
       /\ n >= 3 => tp[3] \in get_instance_name_list(Cur, tp[2])
       /\ n >= 4 => tp[4] \in get_server_class_list(Cur, tp[2], tp[3])
       /\ n >= 5 => Lower(tp[5]) \in
                       {Lower(d) : d \in get_device_name(Cur, tp[2], tp[3], tp[4])}
       /\ n >= 6 => tp[6] = n_properties
       /\ n >= 7 => tp[7] \in get_device_property_list(Cur, Lower(tp[5]))

(***************************************************************************)
(* C2: a resolved node is kept in the cache of its parent, and while no    *)
(* cache above it is cleared it stays there and is not constructed again:  *)
(* two resolutions of a path with no invalidation between them return the  *)
(* same object.                                                            *)
(***************************************************************************)
C2_CachedObjectReused ==
    [][/\ \A tp \in TreePaths :
             (Held(cache, tp) /\ ~Invalidated(tp))
                => (Held(cache', tp) /\ tp \notin made')
       /\ (op'.name = "get_path" /\ ret'.exc = "" /\ Len(op'.path) >= 2)
             => Held(cache', DecodePath(op'.path))]_vars

\* a path was resolved a second time from the cache alone
C2_Witness ==
    /\ op.name = "get_path" /\ op.path = P_p /\ ret.exc = ""
    /\ made = {} /\ calls = <<>> /\ Held(cache, DecodePath(P_p))

(***************************************************************************)
(* C13: a successful rmdir of an instance or of a device clears the cache  *)
(* of the parent collection (the server, the class): the next listing of   *)
(* the parent does not show the deleted name, and the deleted path does    *)
(* not resolve any more.                                                   *)
(***************************************************************************)
C13_DeleteInvalidates ==
    [][/\ (/\ op'.name = "rmdir" /\ ret'.exc = ""
           /\ Len(op'.path) \in {Len(P_i), Len(P_icd)})
          => Parent(DecodePath(op'.path)) \in cleared'
       /\ (/\ op.name = "rmdir" /\ ret.exc = ""
           /\ Len(op.path) \in {Len(P_i), Len(P_icd)}
           /\ op'.name = "readdir" /\ op'.path = Parent(op.path)
           /\ ret'.exc = "")
          => Child(op.path) \notin Listed(ret')
       /\ (/\ op.name = "rmdir" /\ ret.exc = ""
           /\ Len(op.path) \in {Len(P_i), Len(P_icd)}
           /\ op'.name = "get_path" /\ op'.path = op.path)
          => ret'.exc # ""]_vars

(***************************************************************************)
(* C18: an overlay entry is gone after the call that completes its         *)
(* operation: the read of a path with an entry, the rename that replays a  *)
(* buffered temporary file, the mkdir that creates the instance or the     *)
(* device below a pending server or class directory.                       *)
(***************************************************************************)
C18_OverlayTransient ==
    [][/\ (op'.name = "read" /\ tmp[op'.path] # Absent)
          => tmp'[op'.path] = Absent
       /\ (/\ op'.name = "rename" /\ tmp[op'.path].k = "str"
           /\ SEDTMP(Child(op'.path)) /\ ~SEDTMP(Child(op'.path2)))
          => tmp'[op'.path] = Absent
       /\ (/\ op'.name = "mkdir"
           /\ tmp[Parent(op'.path)] \in {IntEntry(SERVER), IntEntry(CLASS)}
           /\ \E k \in 1..Len(calls') :
                 calls'[k][1] \in {"add_server", "add_device"})
          => tmp'[Parent(op'.path)] = Absent]_vars

(***************************************************************************)
(* C5: rename of a path that resolves to a server, a class, a device or a  *)
(* sub-collection fails, and changes neither the database nor the overlay  *)
(* and clears no cache.                                                    *)
(***************************************************************************)
C5_RenameRefused ==
    [][(/\ op'.name = "rename"
        /\ _get_path(Cur, op'.path).exc = ""
        /\ _get_path(Cur, op'.path).node.k \in
              {"ServerDict", "ClassDict", "DeviceDict", "PropertiesDict"})
       => /\ ret'.exc = "ENOENT"
          /\ ~Mutates(calls')
          /\ dbServers' = dbServers /\ dbDevices' = dbDevices
          /\ dbProps' = dbProps
          /\ tmp' = tmp
          /\ cleared' = {}
          /\ \A tp \in TreePaths : Held(cache, tp) => Held(cache', tp)]_vars

\* the rename of a device directory was refused
C5_Witness ==
    /\ op.name = "rename" /\ op.path = P_icd
    /\ ret.exc = "ENOENT"
    /\ <<n_s, n_i, n_c, n_D>> \in dbDevices

(***************************************************************************)
(* C6: resolving a path of which a segment names no child in the database  *)
(* fails with KeyError, and getattr of such a path, with no overlay entry, *)
(* with ENOENT.                                                            *)
(***************************************************************************)
C6_AbsentNotFound ==
    [][/\ (op'.name = "get_path" /\ ~InStore(op'.path))
          => ret'.exc = "KeyError"
       /\ (op'.name = "getattr" /\ ~InStore(op'.path) /\ tmp[op'.path] = Absent)
          => ret'.exc = "ENOENT"]_vars

====
